---------------------------- MODULE Spec2Model ----------------------------
(***************************************************************************)
(* A model of the lab-session assignment engine (src/src/scheduler.py,     *)
(* src/src/models.py): the time-conflict predicate, the greedy constructor *)
(* and the randomized local swap optimizer.                                *)
(*                                                                         *)
(* Students are kept as a sequence in dictionary (insertion) order; a      *)
(* student's id is its index in that sequence.  Sessions are kept as the   *)
(* list self.sessions; a session's id is its index in the list, as the     *)
(* loader numbers them.  Fields the engine never reads (name, dept,        *)
(* group_name, teacher) are left out of the records.                       *)
(***************************************************************************)
EXTENDS Integers, Sequences, FiniteSets, TLC

(***************************************************************************)
(* Bounds of the model.                                                    *)
(***************************************************************************)
\* Largest swap_iterations the small configurations are run with.
MaxSwapIterations == 2

(***************************************************************************)
(* IEEE-754 binary64 arithmetic, as Python's float performs it.            *)
(* A finite double is [neg, exp, hi, lo]: its value is                     *)
(* (-1)^neg * (hi * 2^26 + lo) * 2^exp with a 53-bit significand           *)
(* (2^26 <= hi < 2^27, 0 <= lo < 2^26), or zero (hi = lo = 0).  Every      *)
(* operation rounds to nearest, ties to even.                              *)
(***************************************************************************)
Pow2(k) == 2 ^ k

FlZero == [neg |-> FALSE, exp |-> 0, hi |-> 0, lo |-> 0]

FlOne == [neg |-> FALSE, exp |-> 0 - 52, hi |-> Pow2(26), lo |-> 0]

FlIsZero(x) == x.hi = 0 /\ x.lo = 0

BitLen(n) == IF n = 0 THEN 0
             ELSE CHOOSE k \in 1..31 : Pow2(k - 1) <= n /\ (k = 31 \/ n < Pow2(k))

\* The 53-bit significand <<hi, lo>> plus one unit in the last place if up.
Bump(neg, hi, lo, up, e) ==
    IF up /\ lo + 1 = Pow2(26)
    THEN (IF hi + 1 = Pow2(27)
          THEN [neg |-> neg, exp |-> e + 1, hi |-> Pow2(26), lo |-> 0]
          ELSE [neg |-> neg, exp |-> e, hi |-> hi + 1, lo |-> 0])
    ELSE [neg |-> neg, exp |-> e, hi |-> hi, lo |-> IF up THEN lo + 1 ELSE lo]

\* Round a 56-bit extended significand <<H, L>> (two 28-bit limbs whose low
\* three bits are guard, round and sticky) to 53 bits.
RoundExt(neg, H, L, e) ==
    Bump(neg, H \div 2, (H % 2) * Pow2(25) + (L \div 8),
         L % 8 > 4 \/ (L % 8 = 4 /\ (L \div 8) % 2 = 1), e + 3)

\* The quotient 1.f of an / bn (bn <= an < 2 bn) from four 13-bit digits of
\* long division, rounded on the last remainder.
DivDigits(r0, bn, e) ==
    LET c1 == (r0 * 8192) \div bn
        r1 == (r0 * 8192) % bn
        c2 == (r1 * 8192) \div bn
        r2 == (r1 * 8192) % bn
        c3 == (r2 * 8192) \div bn
        r3 == (r2 * 8192) % bn
        c4 == (r3 * 8192) \div bn
        r4 == (r3 * 8192) % bn
    IN Bump(FALSE, Pow2(26) + c1 * 8192 + c2, c3 * 8192 + c4,
            2 * r4 > bn \/ (2 * r4 = bn /\ c4 % 2 = 1), e)

\* a * 2^t / (b * 2^u) with the operands aligned.
DivAligned(a, b, t, u) == DivDigits(a * Pow2(t) - b * Pow2(u), b * Pow2(u), u - t - 52)

\* a / b for ints 0 <= a, 0 < b (Python's correctly rounded int / int).
FlDivInt(a, b) ==
    IF a = 0 THEN FlZero
    ELSE IF a >= b
         THEN DivAligned(a, b, 0, CHOOSE k \in 0..30 : b * Pow2(k) <= a /\ a < b * Pow2(k + 1))
    ELSE DivAligned(a, b, CHOOSE k \in 0..30 : b <= a * Pow2(k) /\ a * Pow2(k) < 2 * b, 0)

FlNeg(x) == IF FlIsZero(x) THEN x ELSE [x EXCEPT !.neg = ~@]

\* 0.5 * x, exact.
FlHalf(x) == IF FlIsZero(x) THEN x ELSE [x EXCEPT !.exp = @ - 1]

MagLess(x, y) ==
    IF FlIsZero(x) THEN ~FlIsZero(y)
    ELSE IF FlIsZero(y) THEN FALSE
    ELSE IF x.exp # y.exp THEN x.exp < y.exp
    ELSE IF x.hi # y.hi THEN x.hi < y.hi
    ELSE x.lo < y.lo

FlLess(x, y) ==
    IF x.neg /\ ~y.neg THEN TRUE
    ELSE IF ~x.neg /\ y.neg THEN FALSE
    ELSE IF ~x.neg THEN MagLess(x, y)
    ELSE MagLess(y, x)

\* The significand extended by three zero bits, as two 28-bit limbs.
ExtH(x) == x.hi * 2 + (x.lo * 8) \div Pow2(28)

ExtL(x) == (x.lo * 8) % Pow2(28)

\* OR the sticky flag into bit 0 of the low limb.
Sticky(H, L, lost) == <<H, IF lost /\ L % 2 = 0 THEN L + 1 ELSE L>>

\* <<H, L>> shifted right by sh bits, the bits shifted out OR-ed into bit 0.
ShrSticky(H, L, sh) ==
    IF sh = 0 THEN <<H, L>>
    ELSE IF sh < 28
         THEN Sticky(H \div Pow2(sh),
                     (L \div Pow2(sh)) + (H % Pow2(sh)) * Pow2(28 - sh),
                     L % Pow2(sh) # 0)
    ELSE IF sh < 56
         THEN Sticky(0, H \div Pow2(sh - 28), L # 0 \/ H % Pow2(sh - 28) # 0)
    ELSE Sticky(0, 0, H # 0 \/ L # 0)

RoundPair(neg, s, e) == RoundExt(neg, s[1], s[2], e)

\* Round the sum <<H, l>> of two extended significands (l may carry).
AddLimbs(neg, H, l, e) ==
    IF H + l \div Pow2(28) >= Pow2(28)
    THEN RoundPair(neg, ShrSticky(H + l \div Pow2(28), l % Pow2(28), 1), e - 2)
    ELSE RoundExt(neg, H + l \div Pow2(28), l % Pow2(28), e - 3)

AddShifted(neg, x, ys) == AddLimbs(neg, ExtH(x) + ys[1], ExtL(x) + ys[2], x.exp)

\* |x| + |y| for x.exp >= y.exp, both nonzero.
MagAdd(neg, x, y) == AddShifted(neg, x, ShrSticky(ExtH(y), ExtL(y), x.exp - y.exp))

\* <<H, L>> shifted left by z bits so that bit 55 is set, then rounded.
NormShift(neg, H, L, z, e) ==
    IF z < 28
    THEN RoundExt(neg, H * Pow2(z) + L \div Pow2(28 - z), (L % Pow2(28 - z)) * Pow2(z), e - 3 - z)
    ELSE RoundExt(neg, L * Pow2(z - 28), 0, e - 3 - z)

NormExt(neg, H, L, e) ==
    NormShift(neg, H, L, 56 - (IF H > 0 THEN 28 + BitLen(H) ELSE BitLen(L)), e)

\* Round the difference <<H, l>> of two extended significands (l may borrow).
SubLimbs(neg, H, l, e) ==
    IF l < 0 THEN NormExt(neg, H - 1, l + Pow2(28), e) ELSE NormExt(neg, H, l, e)

SubShifted(neg, x, ys) == SubLimbs(neg, ExtH(x) - ys[1], ExtL(x) - ys[2], x.exp)

\* |x| - |y| for |x| > |y|, both nonzero.
MagSub(neg, x, y) == SubShifted(neg, x, ShrSticky(ExtH(y), ExtL(y), x.exp - y.exp))

FlAdd(x, y) ==
    IF FlIsZero(x) THEN y
    ELSE IF FlIsZero(y) THEN x
    ELSE IF x.neg = y.neg
         THEN (IF x.exp >= y.exp THEN MagAdd(x.neg, x, y) ELSE MagAdd(x.neg, y, x))
    ELSE IF MagLess(y, x) THEN MagSub(x.neg, x, y)
    ELSE IF MagLess(x, y) THEN MagSub(y.neg, y, x)
    ELSE FlZero

(***************************************************************************)
(* Small helpers on sequences.                                             *)
(***************************************************************************)
Range(s) == {s[i] : i \in DOMAIN s}

MinOf(S) == CHOOSE m \in S : \A n \in S : m <= n

AbsVal(n) == IF n < 0 THEN 0 - n ELSE n

\* list.remove(x): drops the first occurrence of x.
RemoveFirst(s, x) ==
    LET i == CHOOSE k \in DOMAIN s : s[k] = x /\ \A j \in 1..(k - 1) : s[j] # x
    IN SubSeq(s, 1, i - 1) \o SubSeq(s, i + 1, Len(s))

\* [x for x in s if keep(x)], by index.
RECURSIVE FilterIdx(_, _, _)
FilterIdx(n, i, keep) ==
    IF i > n THEN <<>>
    ELSE (IF i \in keep THEN <<i>> ELSE <<>>) \o FilterIdx(n, i + 1, keep)

(***************************************************************************)
(* models.py                                                               *)
(***************************************************************************)
\* TimeSlot.conflicts_with without the test that the week sets intersect.
conflicts_with_any_week(self, other) ==
    IF ~(self.weeks # {} /\ other.weeks # {}) THEN FALSE
    ELSE IF self.weekday # other.weekday THEN FALSE
    ELSE ~(self.end_period < other.start_period \/ other.end_period < self.start_period)

\* TimeSlot.conflicts_with that tests the period overlap from one side only.
conflicts_with_one_sided(self, other) ==
    IF ~(self.weeks # {} /\ other.weeks # {}) THEN FALSE
    ELSE IF self.weekday # other.weekday THEN FALSE
    ELSE IF self.weeks \cap other.weeks = {} THEN FALSE
    ELSE ~(self.end_period < other.start_period)

\* TimeSlot.conflicts_with, with its early returns in the code's order.
conflicts_with(self, other) ==
    IF ~(self.weeks # {} /\ other.weeks # {}) THEN FALSE
    ELSE IF self.weekday # other.weekday THEN FALSE
    ELSE IF self.weeks \cap other.weeks = {} THEN FALSE
    ELSE ~(self.end_period < other.start_period \/ other.end_period < self.start_period)

\* LabSession.remaining without the floor at zero.
remaining_unclamped(session) == session.capacity - Len(session.assigned_students)

\* LabSession.remaining
remaining(session) ==
    IF session.capacity - Len(session.assigned_students) > 0
    THEN session.capacity - Len(session.assigned_students)
    ELSE 0

\* LabSession.main_week
main_week(session) == IF session.weeks # {} THEN MinOf(session.weeks) ELSE 0

\* LabSession.to_timeslot
to_timeslot(session) ==
    [weeks |-> session.weeks, weekday |-> session.weekday,
     start_period |-> session.start_period, end_period |-> session.end_period]

\* Student.has_conflict without the loop over the assigned sessions.
has_conflict_busy_only(student, slot, session_lookup) ==
    \E i \in DOMAIN student.busy_slots : conflicts_with(student.busy_slots[i], slot)

\* Student.has_conflict without the loop over the busy slots.
has_conflict_assigned_only(student, slot, session_lookup) ==
    \E i \in DOMAIN student.assigned :
        conflicts_with(to_timeslot(session_lookup[student.assigned[i]]), slot)

\* Student.has_conflict
has_conflict(student, slot, session_lookup) ==
    \/ \E i \in DOMAIN student.busy_slots : conflicts_with(student.busy_slots[i], slot)
    \/ \E i \in DOMAIN student.assigned :
          conflicts_with(to_timeslot(session_lookup[student.assigned[i]]), slot)

(***************************************************************************)
(* The state of one engine run.                                            *)
(***************************************************************************)
VARIABLES
    students,         \* self.students: sequence of Student records, dict order
    sessions,         \* self.sessions / self.session_lookup: LabSession records
    required_hours,   \* self.required_hours
    swap_iterations,  \* self.swap_iterations
    pc,               \* where the run is: "constructed", "construct", "optimize", "done", "reported"
    ordered_students, \* assign(): the visiting order
    cursor,           \* assign(): index of the student being served
    assignments,      \* assign(): the commit events <<student_id, session_id>>
    student_ids,      \* _local_optimize(): the sampled population
    trial,            \* _local_optimize(): trials performed so far
    stream,           \* outputs of the seeded generator revealed so far
    pos,              \* number of generator outputs consumed since random.seed
    last,             \* history: what the last optimizer trial sampled and decided
    run,              \* history: 1 for the first run, 2 for the repeated run
    saved,            \* history: the outcome of the first run
    slot_a,           \* conflict check: first TimeSlot
    slot_b,           \* conflict check: second TimeSlot
    verdict,          \* conflict check: results of conflicts_with
    unfilled,         \* the list report_unfilled() returned, as <<student, need>>
    inflight          \* overlapping trials: the swaps checked and not yet committed

vars == <<students, sessions, required_hours, swap_iterations, pc,
          ordered_students, cursor, assignments, student_ids, trial,
          stream, pos, last, run, saved, slot_a, slot_b, verdict, unfilled,
          inflight>>

\* An absent Optional argument, and a present one.
None == <<>>

Some(x) == <<x>>

(***************************************************************************)
(* scheduler.py: scoring                                                   *)
(***************************************************************************)
RECURSIVE SumHours(_, _)
SumHours(ids, session_lookup) ==
    IF ids = <<>> THEN 0
    ELSE session_lookup[Head(ids)].hours + SumHours(Tail(ids), session_lookup)

_student_hours(student, session_lookup) == SumHours(student.assigned, session_lookup)

\* student.required_hours or self.required_hours
_target_hours(student) ==
    IF student.required_hours # 0 THEN student.required_hours ELSE required_hours

_same_slot_count(student, session, session_lookup) ==
    LET new_slot == to_timeslot(session)
    IN Cardinality({i \in DOMAIN student.assigned :
          LET other_slot == to_timeslot(session_lookup[student.assigned[i]])
          IN /\ other_slot.weekday = new_slot.weekday
             /\ other_slot.start_period = new_slot.start_period
             /\ other_slot.end_period = new_slot.end_period})

_spread_distance(student, session, session_lookup) ==
    IF student.assigned = <<>> THEN 0
    ELSE MinOf({AbsVal(main_week(session) - main_week(session_lookup[student.assigned[i]])) :
                   i \in DOMAIN student.assigned})

_class_match_ratio(student, session, studs) ==
    IF session.assigned_students = <<>> THEN FlZero
    ELSE LET same == Cardinality({i \in DOMAIN session.assigned_students :
                        LET peer == studs[session.assigned_students[i]]
                        IN \/ (peer.clazz # "" /\ student.clazz # "" /\ peer.clazz = student.clazz)
                           \/ (peer.major # "" /\ student.major # "" /\ peer.major = student.major)})
         IN FlDivInt(same, Len(session.assigned_students) + 1)

MaxOf2(a, b) == IF a >= b THEN a ELSE b

_hetero_level(session, incoming, studs) ==
    LET roster  == session.assigned_students
        classes == ({studs[roster[i]].clazz : i \in DOMAIN roster}
                     \cup (IF incoming # None THEN {incoming[1].clazz} ELSE {})) \ {""}
        majors  == ({studs[roster[i]].major : i \in DOMAIN roster}
                     \cup (IF incoming # None THEN {incoming[1].major} ELSE {})) \ {""}
        size    == Len(roster) + (IF incoming # None THEN 1 ELSE 0)
    IN IF size = 0 THEN FlZero
       ELSE FlDivInt(MaxOf2(Cardinality(classes), Cardinality(majors)), size)

\* The default weights of Scheduler.__init__.  w_occupancy = 1.0 and
\* w_class = 1.0 multiply exactly, w_hetero = 0.5 halves exactly; w_spread
\* and w_slot multiply small integers, and their products are kept as exact
\* tenths, which order and tie as the binary64 products do.
w_spread_tenths == 2

w_slot_tenths == 1

\* The score with w_occupancy = 0: the fill fraction no longer counts.
_score_without_occupancy(student, session, studs, session_lookup) ==
    LET spread_bonus   == 0 - _spread_distance(student, session, session_lookup)
        class_bonus    == FlNeg(_class_match_ratio(student, session, studs))
        hetero_penalty == FlHalf(_hetero_level(session, Some(student), studs))
        slot_bonus     == 0 - w_slot_tenths * _same_slot_count(student, session, session_lookup)
    IN <<FlZero,
         FlAdd(class_bonus, hetero_penalty),
         w_spread_tenths * spread_bonus,
         slot_bonus>>

_score(student, session, studs, session_lookup) ==
    LET filled == session.capacity - remaining(session)
        occupancy_ratio ==
            IF session.capacity # 0
            THEN (IF session.capacity > 0
                  THEN FlDivInt(filled, session.capacity)
                  ELSE FlDivInt(0 - filled, 0 - session.capacity))
            ELSE FlOne
        spread_bonus   == 0 - _spread_distance(student, session, session_lookup)
        class_bonus    == FlNeg(_class_match_ratio(student, session, studs))
        hetero_penalty == FlHalf(_hetero_level(session, Some(student), studs))
        slot_bonus     == 0 - w_slot_tenths * _same_slot_count(student, session, session_lookup)
    IN <<occupancy_ratio,
         FlAdd(class_bonus, hetero_penalty),
         w_spread_tenths * spread_bonus,
         slot_bonus>>

\* Python's tuple order on two scores.
ScoreLess(x, y) ==
    IF x[1] # y[1] THEN FlLess(x[1], y[1])
    ELSE IF x[2] # y[2] THEN FlLess(x[2], y[2])
    ELSE IF x[3] # y[3] THEN x[3] < y[3]
    ELSE x[4] < y[4]

\* _candidate_sessions without the test of the remaining seats.
_candidate_sessions_any_capacity(student, studs, sess) ==
    FilterIdx(Len(sess), 1,
        {i \in DOMAIN sess :
            /\ ~(sess[i].project_name \in student.taken_projects)
            /\ ~has_conflict(student, to_timeslot(sess[i]), sess)})

\* _candidate_sessions without the test of the projects already taken.
_candidate_sessions_any_project(student, studs, sess) ==
    FilterIdx(Len(sess), 1,
        {i \in DOMAIN sess :
            /\ ~(remaining(sess[i]) <= 0)
            /\ ~has_conflict(student, to_timeslot(sess[i]), sess)})

\* _candidate_sessions that keeps the last seat of every session free.
_candidate_sessions_spare_seat(student, studs, sess) ==
    FilterIdx(Len(sess), 1,
        {i \in DOMAIN sess :
            /\ ~(remaining(sess[i]) <= 1)
            /\ ~(sess[i].project_name \in student.taken_projects)
            /\ ~has_conflict(student, to_timeslot(sess[i]), sess)})

_candidate_sessions(student, studs, sess) ==
    FilterIdx(Len(sess), 1,
        {i \in DOMAIN sess :
            /\ ~(remaining(sess[i]) <= 0)
            /\ ~(sess[i].project_name \in student.taken_projects)
            /\ ~has_conflict(student, to_timeslot(sess[i]), sess)})

\* The sort keys of the candidates, computed once each.
RECURSIVE SortKeys(_, _, _, _)
SortKeys(student, candidates, studs, sess) ==
    IF candidates = <<>> THEN <<>>
    ELSE <<_score(student, sess[Head(candidates)], studs, sess)>>
            \o SortKeys(student, Tail(candidates), studs, sess)

\* The index an unstable sort may put first: the last of the least keys.
LastMin(keys) ==
    CHOOSE i \in DOMAIN keys :
        /\ \A j \in DOMAIN keys : ~ScoreLess(keys[j], keys[i])
        /\ \A j \in (i + 1)..Len(keys) : \E k \in DOMAIN keys : ScoreLess(keys[k], keys[j])

\* The index a stable sort puts first: the first key no other key is below.
FirstMin(keys) ==
    CHOOSE i \in DOMAIN keys :
        /\ \A j \in DOMAIN keys : ~ScoreLess(keys[j], keys[i])
        /\ \A j \in 1..(i - 1) : \E k \in DOMAIN keys : ScoreLess(keys[k], keys[j])

\* candidates.sort(key=_score); candidates[0]
SortedHead(student, candidates, studs, sess) ==
    candidates[FirstMin(SortKeys(student, candidates, studs, sess))]

\* _has_project that finds nothing.
_has_project_never(student, project_name, exclude_session_id, session_lookup) == FALSE

(***************************************************************************)
(* scheduler.py: the swap feasibility gate and the swap itself             *)
(***************************************************************************)
\* Always called with an exclude_session_id.
_has_project(student, project_name, exclude_session_id, session_lookup) ==
    \E i \in DOMAIN student.assigned :
        /\ student.assigned[i] # exclude_session_id
        /\ session_lookup[student.assigned[i]].project_name = project_name

\* _conflicts_with_other_assignments that looks at the busy slots only.
_conflicts_with_other_assignments_busy_only(student, target_session, exclude_session_id, session_lookup) ==
    \E i \in DOMAIN student.busy_slots :
        conflicts_with(student.busy_slots[i], to_timeslot(target_session))

_conflicts_with_other_assignments(student, target_session, exclude_session_id, session_lookup) ==
    LET slot == to_timeslot(target_session)
    IN \/ \E i \in DOMAIN student.assigned :
             /\ student.assigned[i] # exclude_session_id
             /\ conflicts_with(to_timeslot(session_lookup[student.assigned[i]]), slot)
       \/ \E i \in DOMAIN student.busy_slots : conflicts_with(student.busy_slots[i], slot)

\* _session_diversity that still counts the class and major of the student
\* who leaves.
_session_diversity_counting_leaver(session, swap_out, swap_in, studs) ==
    LET roster  == session.assigned_students
        classes == ({studs[roster[i]].clazz : i \in DOMAIN roster}
                     \cup (IF swap_in # None THEN {swap_in[1].clazz} ELSE {})) \ {""}
        majors  == ({studs[roster[i]].major : i \in DOMAIN roster}
                     \cup (IF swap_in # None THEN {swap_in[1].major} ELSE {})) \ {""}
        size    == Len(roster)
                   - (IF swap_out # None /\ swap_out[1].student_id \in Range(roster) THEN 1 ELSE 0)
                   + (IF swap_in # None THEN 1 ELSE 0)
    IN IF size <= 0 THEN FlZero
       ELSE FlDivInt(MaxOf2(Cardinality(classes), Cardinality(majors)), size)

\* _session_diversity whose size always counts the whole roster and the
\* student coming in.
_session_diversity_size_of_roster(session, swap_out, swap_in, studs) ==
    LET roster  == session.assigned_students
        kept    == {i \in DOMAIN roster :
                       ~(swap_out # None /\ roster[i] = swap_out[1].student_id)}
        classes == ({studs[roster[i]].clazz : i \in kept}
                     \cup (IF swap_in # None THEN {swap_in[1].clazz} ELSE {})) \ {""}
        majors  == ({studs[roster[i]].major : i \in kept}
                     \cup (IF swap_in # None THEN {swap_in[1].major} ELSE {})) \ {""}
        size    == Len(roster) + (IF swap_in # None THEN 1 ELSE 0)
    IN IF size <= 0 THEN FlZero
       ELSE FlDivInt(MaxOf2(Cardinality(classes), Cardinality(majors)), size)

_session_diversity(session, swap_out, swap_in, studs) ==
    LET roster  == session.assigned_students
        kept    == {i \in DOMAIN roster :
                       ~(swap_out # None /\ roster[i] = swap_out[1].student_id)}
        classes == ({studs[roster[i]].clazz : i \in kept}
                     \cup (IF swap_in # None THEN {swap_in[1].clazz} ELSE {})) \ {""}
        majors  == ({studs[roster[i]].major : i \in kept}
                     \cup (IF swap_in # None THEN {swap_in[1].major} ELSE {})) \ {""}
        size    == Len(roster)
                   - (IF swap_out # None /\ swap_out[1].student_id \in Range(roster) THEN 1 ELSE 0)
                   + (IF swap_in # None THEN 1 ELSE 0)
    IN IF size <= 0 THEN FlZero
       ELSE FlDivInt(MaxOf2(Cardinality(classes), Cardinality(majors)), size)

\* _can_swap without the hours gate.
HoursIgnored(student, given_up, received, session_lookup) == TRUE

\* The hours gate of _can_swap: the student keeps at least the target.
HoursKept(student, given_up, received, session_lookup) ==
    ~(_student_hours(student, session_lookup) - given_up.hours + received.hours
         < _target_hours(student))

_can_swap(student_a, session_a, student_b, session_b, session_lookup) ==
    IF session_a.session_id = session_b.session_id THEN FALSE
    ELSE IF _has_project(student_a, session_b.project_name, session_a.session_id, session_lookup)
         THEN FALSE
    ELSE IF _has_project(student_b, session_a.project_name, session_b.session_id, session_lookup)
         THEN FALSE
    ELSE IF _conflicts_with_other_assignments(student_a, session_b, session_a.session_id, session_lookup)
         THEN FALSE
    ELSE IF _conflicts_with_other_assignments(student_b, session_a, session_b.session_id, session_lookup)
         THEN FALSE
    ELSE IF ~HoursKept(student_a, session_a, session_b, session_lookup) THEN FALSE
    ELSE IF ~HoursKept(student_b, session_b, session_a, session_lookup) THEN FALSE
    ELSE TRUE

\* _drop_project_if_unused that never discards.
_drop_project_never(student, project_name, removed_session_id, session_lookup) ==
    student.taken_projects

\* The student's taken_projects after _drop_project_if_unused.
_drop_project_if_unused(student, project_name, removed_session_id, session_lookup) ==
    IF \E i \in DOMAIN student.assigned :
          /\ student.assigned[i] # removed_session_id
          /\ session_lookup[student.assigned[i]].project_name = project_name
    THEN student.taken_projects
    ELSE student.taken_projects \ {project_name}

\* The list update of _perform_swap without the remove.
AppendOnly(list, v, w) == Append(list, w)

\* x.remove(v) guarded by "if v in x", then x.append(w).
Replace(list, v, w) ==
    Append(IF v \in Range(list) THEN RemoveFirst(list, v) ELSE list, w)

\* _perform_swap that leaves student_b on the roster of session_b.
_perform_swap_keeping_b(studs, sess, a, sa, b, sb) ==
    LET sess1 == [sess EXCEPT
                    ![sa].assigned_students = Replace(@, a, b),
                    ![sb].assigned_students = Append(@, a)]
        studs1 == [studs EXCEPT
                    ![a].assigned = Replace(@, sa, sb),
                    ![b].assigned = Replace(@, sb, sa)]
        studs2 == [studs1 EXCEPT
                    ![a].taken_projects =
                        _drop_project_if_unused(studs1[a], sess[sa].project_name, sa, sess),
                    ![b].taken_projects =
                        _drop_project_if_unused(studs1[b], sess[sb].project_name, sb, sess)]
        studs3 == [studs2 EXCEPT
                    ![a].taken_projects = @ \cup {sess[sb].project_name},
                    ![b].taken_projects = @ \cup {sess[sa].project_name}]
    IN [students |-> studs3, sessions |-> sess1]

\* The students and sessions after _perform_swap.
_perform_swap(studs, sess, a, sa, b, sb) ==
    LET sess1 == [sess EXCEPT
                    ![sa].assigned_students = Replace(@, a, b),
                    ![sb].assigned_students = Replace(@, b, a)]
        studs1 == [studs EXCEPT
                    ![a].assigned = Replace(@, sa, sb),
                    ![b].assigned = Replace(@, sb, sa)]
        studs2 == [studs1 EXCEPT
                    ![a].taken_projects =
                        _drop_project_if_unused(studs1[a], sess[sa].project_name, sa, sess),
                    ![b].taken_projects =
                        _drop_project_if_unused(studs1[b], sess[sb].project_name, sb, sess)]
        studs3 == [studs2 EXCEPT
                    ![a].taken_projects = @ \cup {sess[sb].project_name},
                    ![b].taken_projects = @ \cup {sess[sa].project_name}]
    IN [students |-> studs3, sessions |-> sess1]

\* after_div < before_div, on the binary64 sums the code computes.
BeforeDiv(studs, sess, sa, sb) ==
    FlAdd(_session_diversity(sess[sa], None, None, studs),
          _session_diversity(sess[sb], None, None, studs))

AfterDiv(studs, sess, a, sa, b, sb) ==
    FlAdd(_session_diversity(sess[sa], Some(studs[a]), Some(studs[b]), studs),
          _session_diversity(sess[sb], Some(studs[b]), Some(studs[a]), studs))

\* The gate with <= in place of <.
ImprovesOrTies(after_div, before_div) == ~FlLess(before_div, after_div)

\* The gate with the comparison turned around.
Worsens(after_div, before_div) == FlLess(before_div, after_div)

Improves(after_div, before_div) == FlLess(after_div, before_div)

(***************************************************************************)
(* The random module.  random.seed(seed) fixes the whole sequence of       *)
(* generator outputs; the k-th call of randbelow after seeding returns the *)
(* k-th output.  An output is revealed when it is first consumed and is    *)
(* replayed when the same position is consumed again with the same bound.  *)
(***************************************************************************)
\* The possible results of randbelow(n) consumed at position p.
Draw(n, p) ==
    IF p <= Len(stream) /\ stream[p].n = n THEN {stream[p].r} ELSE 0..(n - 1)

Reveal(strm, p, n, r) ==
    IF p <= Len(strm) THEN [strm EXCEPT ![p] = [n |-> n, r |-> r]]
    ELSE Append(strm, [n |-> n, r |-> r])

\* __init__ without random.seed: the generator goes on where it was.
Unseeded(p) == p

\* The position of the generator after random.seed(seed) in __init__.
Seeded(p) == 0

\* random.shuffle(x) with the draws js (js[k] is drawn for i = Len(x) - k).
RECURSIVE Shuffle(_, _, _)
Shuffle(x, js, k) ==
    IF k > Len(js) THEN x
    ELSE LET i == Len(x) - k + 1
             j == js[k] + 1
         IN Shuffle([x EXCEPT ![i] = x[j], ![j] = x[i]], js, k + 1)

\* The bounds of the draws random.shuffle makes on a list of length len.
ShuffleBounds(len) == [k \in 1..(IF len > 1 THEN len - 1 ELSE 0) |-> len - k + 1]

\* random.sample(population, 2) for populations of at most 21 elements.
Sample2(population, j1, j2) ==
    LET n    == Len(population)
        pool == [population EXCEPT ![j1 + 1] = population[n]]
    IN <<population[j1 + 1], pool[j2 + 1]>>

\* random.choice(seq)
Choice(seq, j) == seq[j + 1]

(***************************************************************************)
(* scheduler.py: assign() -- the visiting order                            *)
(***************************************************************************)
\* stu.clazz or stu.major or "_misc"
GroupKey(stu) ==
    IF stu.clazz # "" THEN stu.clazz
    ELSE IF stu.major # "" THEN stu.major
    ELSE "_misc"

\* class_groups[key]: the ids with the key of student g, in dictionary order.
ClassGroup(studs, g) ==
    FilterIdx(Len(studs), 1, {i \in DOMAIN studs : GroupKey(studs[i]) = GroupKey(studs[g])})

\* The groups sorted by len instead of -len: smaller first.
SortedGroups_smaller_first(studs) ==
    LET firsts == {g \in DOMAIN studs : ClassGroup(studs, g)[1] = g}
        size(g) == Len(ClassGroup(studs, g))
        rank(g) == 1 + Cardinality({h \in firsts :
                          size(h) < size(g) \/ (size(h) = size(g) /\ h < g)})
    IN [r \in 1..Cardinality(firsts) |->
           ClassGroup(studs, CHOOSE g \in firsts : rank(g) = r)]

\* sorted(class_groups.items(), key=-len): the groups, each named by its
\* first member, larger first, equal sizes in insertion order.
SortedGroups(studs) ==
    LET firsts == {g \in DOMAIN studs : ClassGroup(studs, g)[1] = g}
        size(g) == Len(ClassGroup(studs, g))
        rank(g) == 1 + Cardinality({h \in firsts :
                          size(h) > size(g) \/ (size(h) = size(g) /\ h < g)})
    IN [r \in 1..Cardinality(firsts) |->
           ClassGroup(studs, CHOOSE g \in firsts : rank(g) = r)]

\* The bounds of all draws the shuffles of the groups make, in order.
RECURSIVE GroupBounds(_)
GroupBounds(groups) ==
    IF groups = <<>> THEN <<>>
    ELSE ShuffleBounds(Len(Head(groups))) \o GroupBounds(Tail(groups))

\* ordered_students: each group shuffled with its share of the draws js.
RECURSIVE ExtendShuffled(_, _)
ExtendShuffled(groups, js) ==
    IF groups = <<>> THEN <<>>
    ELSE LET d == Len(ShuffleBounds(Len(Head(groups))))
         IN Shuffle(Head(groups), SubSeq(js, 1, d), 1)
               \o ExtendShuffled(Tail(groups), SubSeq(js, d + 1, Len(js)))

\* All result sequences of consecutive draws with the given bounds after p.
RECURSIVE DrawSeqs(_, _)
DrawSeqs(bounds, p) ==
    IF bounds = <<>> THEN {<<>>}
    ELSE {<<r>> \o rest : r \in Draw(Head(bounds), p + 1),
                          rest \in DrawSeqs(Tail(bounds), p + 1)}

RECURSIVE RevealAll(_, _, _, _)
RevealAll(strm, p, bounds, js) ==
    IF bounds = <<>> THEN strm
    ELSE RevealAll(Reveal(strm, p + 1, Head(bounds), Head(js)), p + 1, Tail(bounds), Tail(js))

NoTrial == [kind |-> "none", a |-> 0, b |-> 0, sa |-> 0, sb |-> 0,
            before_div |-> FlZero, after_div |-> FlZero]

NoSlot == [weeks |-> {}, weekday |-> 0, start_period |-> 0, end_period |-> 0]

NoOutcome == [assignments |-> <<>>, rosters |-> <<>>, assigned |-> <<>>, draws |-> <<>>]

NoVerdict == [checked |-> FALSE, ab |-> FALSE, ba |-> FALSE, aa |-> FALSE]

NoneInFlight == [checked |-> <<>>, overlapped |-> FALSE]

\* assign(), lines 145-154: group, sort the groups, shuffle each.
OrderStudents ==
    /\ pc = "constructed"
    /\ LET groups == SortedGroups(students)
           bounds == GroupBounds(groups)
       IN \E js \in DrawSeqs(bounds, pos) :
             /\ ordered_students' = ExtendShuffled(groups, js)
             /\ stream' = RevealAll(stream, pos, bounds, js)
             /\ pos' = pos + Len(bounds)
    /\ pc' = "construct"
    /\ cursor' = 1
    /\ assignments' = <<>>
    /\ UNCHANGED <<students, sessions, required_hours, swap_iterations,
                   student_ids, trial, last, run, saved, slot_a, slot_b, verdict, unfilled, inflight>>

\* The loop condition with <= in place of <.
AtOrBelowTarget(student, session_lookup) ==
    _student_hours(student, session_lookup) <= _target_hours(student)

(***************************************************************************)
(* scheduler.py: assign() -- the greedy constructor                        *)
(***************************************************************************)
\* The loop condition of line 158 (and of the break of line 169).
BelowTarget(student, session_lookup) ==
    _student_hours(student, session_lookup) < _target_hours(student)

\* The commit without line 166, student.taken_projects.add.
CommitChosenForgetProject(sid, chosen) ==
    /\ sessions' = [sessions EXCEPT ![chosen].assigned_students = Append(@, sid)]
    /\ students' = [students EXCEPT ![sid].assigned = Append(@, chosen)]
    /\ assignments' = Append(assignments, <<sid, chosen>>)

\* A commit that takes back what the student held before.
CommitChosenBacktracking(sid, chosen) ==
    /\ sessions' = [sessions EXCEPT ![chosen].assigned_students = Append(@, sid)]
    /\ students' = [students EXCEPT
                      ![sid].assigned = <<chosen>>,
                      ![sid].taken_projects = {sessions[chosen].project_name}]
    /\ assignments' = Append(assignments, <<sid, chosen>>)

\* Lines 164-167: the chosen session is committed to the student.
CommitChosen(sid, chosen) ==
    /\ sessions' = [sessions EXCEPT ![chosen].assigned_students = Append(@, sid)]
    /\ students' = [students EXCEPT
                      ![sid].assigned = Append(@, chosen),
                      ![sid].taken_projects = @ \cup {sessions[chosen].project_name}]
    /\ assignments' = Append(assignments, <<sid, chosen>>)

\* One iteration of the while loop of lines 158-170 that commits a session.
Commit ==
    /\ pc = "construct"
    /\ cursor <= Len(ordered_students)
    /\ LET sid == ordered_students[cursor]
           student == students[sid]
           candidates == _candidate_sessions(student, students, sessions)
       IN /\ BelowTarget(student, sessions)
          /\ candidates # <<>>
          /\ CommitChosen(sid, SortedHead(student, candidates, students, sessions))
    /\ UNCHANGED <<required_hours, swap_iterations, pc, ordered_students, cursor,
                   student_ids, trial, stream, pos, last, run, saved,
                   slot_a, slot_b, verdict, unfilled, inflight>>

\* The while loop ends (target reached, or no candidates): next student.
NextStudent ==
    /\ pc = "construct"
    /\ cursor <= Len(ordered_students)
    /\ LET student == students[ordered_students[cursor]]
       IN ~(/\ BelowTarget(student, sessions)
            /\ _candidate_sessions(student, students, sessions) # <<>>)
    /\ cursor' = cursor + 1
    /\ UNCHANGED <<students, sessions, required_hours, swap_iterations, pc,
                   ordered_students, assignments, student_ids, trial, stream, pos,
                   last, run, saved, slot_a, slot_b, verdict, unfilled, inflight>>

(***************************************************************************)
(* scheduler.py: _local_optimize()                                         *)
(***************************************************************************)
\* Lines 171-172 and 301-303: enter the optimizer, or return.
StartOptimize ==
    /\ pc = "construct"
    /\ cursor > Len(ordered_students)
    /\ LET ids == FilterIdx(Len(students), 1,
                     {i \in DOMAIN students : students[i].assigned # <<>>})
       IN IF swap_iterations > 0
          THEN /\ student_ids' = ids
               /\ pc' = IF Len(ids) < 2 THEN "done" ELSE "optimize"
          ELSE /\ student_ids' = student_ids
               /\ pc' = "done"
    /\ trial' = 0
    /\ UNCHANGED <<students, sessions, required_hours, swap_iterations,
                   ordered_students, cursor, assignments, stream, pos, last,
                   run, saved, slot_a, slot_b, verdict, unfilled, inflight>>

\* What a trial records of itself.
TrialRecord(kind, a, b, sa, sb, before_div, after_div) ==
    [kind |-> kind, a |-> a, b |-> b, sa |-> sa, sb |-> sb,
     before_div |-> before_div, after_div |-> after_div]

\* A trial that leaves students and sessions as they are.
Rejected(kind, a, b, sa, sb, before_div, after_div) ==
    [students |-> students, sessions |-> sessions,
     last |-> TrialRecord(kind, a, b, sa, sb, before_div, after_div)]

Accepted(swapped, a, b, sa, sb, before_div, after_div) ==
    [students |-> swapped.students, sessions |-> swapped.sessions,
     last |-> TrialRecord("swapped", a, b, sa, sb, before_div, after_div)]

\* Lines 321-322: the improvement gate.
ImprovementGate(a, b, sa, sb, before_div, after_div) ==
    IF Improves(after_div, before_div)
    THEN Accepted(_perform_swap(students, sessions, a, sa, b, sb),
                  a, b, sa, sb, before_div, after_div)
    ELSE Rejected("no_gain", a, b, sa, sb, before_div, after_div)

\* Lines 308-322 for the sampled pair and the chosen sessions: what the
\* trial decides, and the students and sessions it leaves.
TrialResult(a, b, sa, sb, skipped) ==
    IF skipped THEN Rejected("unassigned", a, b, sa, sb, FlZero, FlZero)
    ELSE IF sa = sb THEN Rejected("same_session", a, b, sa, sb, FlZero, FlZero)
    ELSE IF ~_can_swap(students[a], sessions[sa], students[b], sessions[sb], sessions)
         THEN Rejected("infeasible", a, b, sa, sb, FlZero, FlZero)
    ELSE ImprovementGate(a, b, sa, sb,
                         BeforeDiv(students, sessions, sa, sb),
                         AfterDiv(students, sessions, a, sa, b, sb))

\* The trial's result becomes the state.
Apply(res) ==
    /\ students' = res.students
    /\ sessions' = res.sessions
    /\ last' = res.last

\* One iteration of the for loop of lines 304-322.
Trial ==
    /\ pc = "optimize"
    /\ trial < swap_iterations
    /\ LET n == Len(student_ids)
       IN \E j1 \in Draw(n, pos + 1), j2 \in Draw(n - 1, pos + 2) :
            LET pair    == Sample2(student_ids, j1, j2)
                a       == pair[1]
                b       == pair[2]
                skipped == students[a].assigned = <<>> \/ students[b].assigned = <<>>
                na      == Len(students[a].assigned)
                nb      == Len(students[b].assigned)
                strm2   == Reveal(Reveal(stream, pos + 1, n, j1), pos + 2, n - 1, j2)
            IN \E ca \in (IF skipped THEN {0} ELSE Draw(na, pos + 3)),
                  cb \in (IF skipped THEN {0} ELSE Draw(nb, pos + 4)) :
                 LET sa  == IF skipped THEN 0 ELSE Choice(students[a].assigned, ca)
                     sb  == IF skipped THEN 0 ELSE Choice(students[b].assigned, cb)
                 IN /\ Apply(TrialResult(a, b, sa, sb, skipped))
                    /\ stream' = IF skipped THEN strm2
                                 ELSE Reveal(Reveal(strm2, pos + 3, na, ca), pos + 4, nb, cb)
                    /\ pos' = pos + (IF skipped THEN 2 ELSE 4)
    /\ trial' = trial + 1
    /\ pc' = IF trial + 1 = swap_iterations THEN "done" ELSE "optimize"
    /\ UNCHANGED <<required_hours, swap_iterations, ordered_students, cursor,
                   assignments, student_ids, run, saved, slot_a, slot_b, verdict, unfilled, inflight>>

(***************************************************************************)
(* scheduler.py: report_unfilled()                                         *)
(***************************************************************************)
\* The messages of report_unfilled, each as <<student id, need>>: one for
\* every student, in dictionary order, with
\* need = self.required_hours - _student_hours(stu) > 0.
report_unfilled(studs, session_lookup) ==
    LET flagged == FilterIdx(Len(studs), 1,
                      {i \in DOMAIN studs :
                          required_hours - _student_hours(studs[i], session_lookup) > 0})
    IN [k \in DOMAIN flagged |->
           <<flagged[k], required_hours - _student_hours(studs[flagged[k]], session_lookup)>>]

\* main(), line 70: after assign() has returned, the warnings are collected.
ReportUnfilled ==
    /\ pc = "done"
    /\ pc' = "reported"
    /\ unfilled' = report_unfilled(students, sessions)
    /\ UNCHANGED <<students, sessions, required_hours, swap_iterations,
                   ordered_students, cursor, assignments, student_ids, trial,
                   stream, pos, last, run, saved, slot_a, slot_b, verdict, inflight>>

(***************************************************************************)
(* Inputs.  A run starts right after Scheduler.__init__: nobody is         *)
(* assigned, every roster is empty, the generator has just been seeded.    *)
(***************************************************************************)
NumStudents == 3

NumSessions == 3

\* A lecture the student attends: week 1, weekday 1, period 1.
BusySlot == [weeks |-> {1}, weekday |-> 1, start_period |-> 1, end_period |-> 1]

StudentProfiles ==
    << [clazz |-> "X1", major |-> "M1", required_hours |-> 0, busy_slots |-> <<>>],
       [clazz |-> "X2", major |-> "M1", required_hours |-> 1, busy_slots |-> <<>>],
       [clazz |-> "X2", major |-> "M2", required_hours |-> 2, busy_slots |-> <<BusySlot>>],
       [clazz |-> "",   major |-> "M1", required_hours |-> 1, busy_slots |-> <<>>] >>

SessionProfiles ==
    << [project_name |-> "P1", weeks |-> {1}, weekday |-> 1, start_period |-> 1,
        end_period |-> 2, capacity |-> 2, hours |-> 1],
       [project_name |-> "P2", weeks |-> {1, 2}, weekday |-> 1, start_period |-> 2,
        end_period |-> 3, capacity |-> 2, hours |-> 1],
       [project_name |-> "P1", weeks |-> {2}, weekday |-> 2, start_period |-> 1,
        end_period |-> 1, capacity |-> 1, hours |-> 2],
       [project_name |-> "P3", weeks |-> {}, weekday |-> 1, start_period |-> 1,
        end_period |-> 2, capacity |-> 2, hours |-> 1],
       [project_name |-> "P3", weeks |-> {3}, weekday |-> 1, start_period |-> 1,
        end_period |-> 2, capacity |-> 0 - 1, hours |-> 1],
       [project_name |-> "P2", weeks |-> {2}, weekday |-> 2, start_period |-> 2,
        end_period |-> 2, capacity |-> 0, hours |-> 1] >>

\* The ways to pick n rows of a table of the given size, kept in table order.
Picks(n, size) ==
    {ps \in [1..n -> 1..size] : \A i \in 1..(n - 1) : ps[i] <= ps[i + 1]}

\* A Student as the loader builds it: nothing assigned, no project taken.
NewStudent(id, profile) ==
    [student_id |-> id, major |-> profile.major, clazz |-> profile.clazz,
     required_hours |-> profile.required_hours, busy_slots |-> profile.busy_slots,
     assigned |-> <<>>, taken_projects |-> {}]

\* A LabSession as the loader builds it: an empty roster.
NewSession(id, profile) ==
    [session_id |-> id, project_name |-> profile.project_name, weeks |-> profile.weeks,
     weekday |-> profile.weekday, start_period |-> profile.start_period,
     end_period |-> profile.end_period, capacity |-> profile.capacity,
     hours |-> profile.hours, assigned_students |-> <<>>]

\* The state Scheduler.__init__ leaves, given the inputs.
Constructed ==
    /\ pc = "constructed"
    /\ ordered_students = <<>>
    /\ cursor = 1
    /\ assignments = <<>>
    /\ student_ids = <<>>
    /\ trial = 0
    /\ stream = <<>>
    /\ pos = Seeded(0)
    /\ last = NoTrial
    /\ run = 1
    /\ saved = NoOutcome
    /\ slot_a = NoSlot
    /\ slot_b = NoSlot
    /\ verdict = NoVerdict
    /\ unfilled = <<>>
    /\ inflight = NoneInFlight

Init ==
    /\ \E ps \in Picks(NumStudents, Len(StudentProfiles)) :
          students = [i \in 1..NumStudents |-> NewStudent(i, StudentProfiles[ps[i]])]
    /\ \E ps \in Picks(NumSessions, Len(SessionProfiles)) :
          sessions = [i \in 1..NumSessions |-> NewSession(i, SessionProfiles[ps[i]])]
    /\ required_hours = 2
    /\ swap_iterations \in {0, MaxSwapIterations}
    /\ Constructed

Next ==
    \/ OrderStudents
    \/ Commit
    \/ NextStudent
    \/ StartOptimize
    \/ Trial
    \/ ReportUnfilled

Spec == Init /\ [][Next]_vars

(***************************************************************************)
(* A second run on the same inputs: the process is started again, the      *)
(* loader rebuilds the same students and sessions, __init__ seeds the      *)
(* generator with the same seed.                                           *)
(***************************************************************************)
Rerun ==
    /\ pc = "done"
    /\ run = 1
    /\ saved' = [assignments |-> assignments,
                 rosters |-> [t \in DOMAIN sessions |-> sessions[t].assigned_students],
                 assigned |-> [i \in DOMAIN students |-> students[i].assigned],
                 draws |-> SubSeq(stream, 1, pos)]
    /\ students' = [i \in DOMAIN students |->
                       [students[i] EXCEPT !.assigned = <<>>, !.taken_projects = {}]]
    /\ sessions' = [t \in DOMAIN sessions |->
                       [sessions[t] EXCEPT !.assigned_students = <<>>]]
    /\ pos' = Seeded(pos)
    /\ run' = 2
    /\ pc' = "constructed"
    /\ ordered_students' = <<>>
    /\ cursor' = 1
    /\ assignments' = <<>>
    /\ student_ids' = <<>>
    /\ trial' = 0
    /\ last' = NoTrial
    /\ UNCHANGED <<required_hours, swap_iterations, stream, slot_a, slot_b, verdict, unfilled, inflight>>

\* The inputs of the repeated runs: any students, the first two timetable
\* rows and any third, one optimizer trial.
InitDet ==
    /\ \E ps \in Picks(NumStudents, Len(StudentProfiles)) :
          students = [i \in 1..NumStudents |-> NewStudent(i, StudentProfiles[ps[i]])]
    /\ \E ps \in Picks(NumSessions, Len(SessionProfiles)) :
          /\ \A i \in 1..(NumSessions - 1) : ps[i] = i
          /\ sessions = [i \in 1..NumSessions |-> NewSession(i, SessionProfiles[ps[i]])]
    /\ required_hours = 2
    /\ swap_iterations = 1
    /\ Constructed

NextDet == Next \/ Rerun

SpecDet == InitDet /\ [][NextDet]_vars

(***************************************************************************)
(* The generator is the one of the random module, shared by the process:   *)
(* __init__ seeds it, assign() draws from it.  Between the __init__ and    *)
(* the assign() of the repeated run another Scheduler may be constructed   *)
(* with another seed; its random.seed puts the shared generator at the     *)
(* start of that seed's sequence, of which nothing has been revealed.      *)
(***************************************************************************)
OtherScheduler ==
    /\ pc = "constructed"
    /\ run = 2
    /\ stream' = <<>>
    /\ pos' = Seeded(pos)
    /\ UNCHANGED <<students, sessions, required_hours, swap_iterations, pc,
                   ordered_students, cursor, assignments, student_ids, trial,
                   last, run, saved, slot_a, slot_b, verdict, unfilled, inflight>>

NextShared == NextDet \/ OtherScheduler

SpecShared == InitDet /\ [][NextShared]_vars

(***************************************************************************)
(* The inputs on which binary64 rounding decides the improvement gate:     *)
(* ten students who each need one session, two sessions of five seats.     *)
(* Lectures tie eight of the students to one session; the two others go    *)
(* where the fill fraction sends them.                                     *)
(***************************************************************************)
\* A lecture in the week of the first session, and one in the week of the second.
BusyFirst == [weeks |-> {1}, weekday |-> 1, start_period |-> 1, end_period |-> 1]

BusySecond == [weeks |-> {2}, weekday |-> 1, start_period |-> 1, end_period |-> 1]

TieStudents ==
    << [clazz |-> "X2", major |-> "", required_hours |-> 1, busy_slots |-> <<>>],
       [clazz |-> "X2", major |-> "", required_hours |-> 1, busy_slots |-> <<BusySecond>>],
       [clazz |-> "X2", major |-> "", required_hours |-> 1, busy_slots |-> <<BusyFirst>>],
       [clazz |-> "X6", major |-> "", required_hours |-> 1, busy_slots |-> <<BusyFirst>>],
       [clazz |-> "X6", major |-> "", required_hours |-> 1, busy_slots |-> <<BusyFirst>>],
       [clazz |-> "X6", major |-> "", required_hours |-> 1, busy_slots |-> <<BusyFirst>>],
       [clazz |-> "X4", major |-> "", required_hours |-> 1, busy_slots |-> <<BusySecond>>],
       [clazz |-> "X4", major |-> "", required_hours |-> 1, busy_slots |-> <<BusySecond>>],
       [clazz |-> "X1", major |-> "", required_hours |-> 1, busy_slots |-> <<>>],
       [clazz |-> "X3", major |-> "", required_hours |-> 1, busy_slots |-> <<BusySecond>>] >>

TieSessions ==
    << [project_name |-> "P1", weeks |-> {1}, weekday |-> 1, start_period |-> 1,
        end_period |-> 2, capacity |-> 5, hours |-> 1],
       [project_name |-> "P2", weeks |-> {2}, weekday |-> 1, start_period |-> 1,
        end_period |-> 2, capacity |-> 5, hours |-> 1] >>

InitTie ==
    /\ students = [i \in DOMAIN TieStudents |-> NewStudent(i, TieStudents[i])]
    /\ sessions = [i \in DOMAIN TieSessions |-> NewSession(i, TieSessions[i])]
    /\ required_hours = 1
    /\ swap_iterations = 1
    /\ Constructed

SpecTie == InitTie /\ [][Next]_vars

(***************************************************************************)
(* The conflict predicate on its own: two slots are given, conflicts_with  *)
(* is evaluated on them.                                                   *)
(***************************************************************************)
MaxWeek == 2

MaxWeekday == 2

MaxPeriod == 3

Slots ==
    [weeks : SUBSET (1..MaxWeek), weekday : 1..MaxWeekday,
     start_period : 1..MaxPeriod, end_period : 1..MaxPeriod]

InitConflict ==
    /\ slot_a \in Slots
    /\ slot_b \in Slots
    /\ verdict = NoVerdict
    /\ students = <<>>
    /\ sessions = <<>>
    /\ required_hours = 0
    /\ swap_iterations = 0
    /\ pc = "conflict"
    /\ ordered_students = <<>>
    /\ cursor = 1
    /\ assignments = <<>>
    /\ student_ids = <<>>
    /\ trial = 0
    /\ stream = <<>>
    /\ pos = 0
    /\ last = NoTrial
    /\ run = 1
    /\ saved = NoOutcome
    /\ unfilled = <<>>
    /\ inflight = NoneInFlight

CheckConflict ==
    /\ pc = "conflict"
    /\ ~verdict.checked
    /\ verdict' = [checked |-> TRUE,
                   ab |-> conflicts_with(slot_a, slot_b),
                   ba |-> conflicts_with(slot_b, slot_a),
                   aa |-> conflicts_with(slot_a, slot_a)]
    /\ UNCHANGED <<students, sessions, required_hours, swap_iterations, pc,
                   ordered_students, cursor, assignments, student_ids, trial,
                   stream, pos, last, run, saved, slot_a, slot_b, unfilled, inflight>>

NextConflict == CheckConflict

SpecConflict == InitConflict /\ [][NextConflict]_vars

(***************************************************************************)
(* One session for everybody: n students without lectures who all need h   *)
(* hours, and a single session of n seats that grants h hours.  The loader *)
(* gives every student the run's required_hours.                           *)
(***************************************************************************)
MaxRoster == 3

MaxHours == 2

Classes == {"X1", "X2"}

InitOneSession ==
    /\ \E n \in 1..MaxRoster, h \in 0..MaxHours :
          /\ \E cl \in [1..n -> Classes] :
                students = [i \in 1..n |->
                               NewStudent(i, [clazz |-> cl[i], major |-> "M1",
                                              required_hours |-> h, busy_slots |-> <<>>])]
          /\ sessions = <<NewSession(1, [project_name |-> "P1", weeks |-> {1}, weekday |-> 1,
                                         start_period |-> 1, end_period |-> 2,
                                         capacity |-> n, hours |-> h])>>
          /\ required_hours = h
    /\ swap_iterations \in {0, MaxSwapIterations}
    /\ Constructed

SpecOneSession == InitOneSession /\ [][Next]_vars

(***************************************************************************)
(* Two sessions of two seats and as many students as seats, each of any    *)
(* class and major, nobody with lectures, everybody needing one session;   *)
(* one optimizer trial.  Filling the emptier session first, the            *)
(* constructor seats two classes across both sessions.                     *)
(***************************************************************************)
Majors == {"", "M1", "M2"}

ExchangeSessions ==
    << [project_name |-> "P1", weeks |-> {1}, weekday |-> 1, start_period |-> 1,
        end_period |-> 2, capacity |-> 2, hours |-> 1],
       [project_name |-> "P2", weeks |-> {2}, weekday |-> 1, start_period |-> 1,
        end_period |-> 2, capacity |-> 2, hours |-> 1] >>

ExchangeStudents == 1..(ExchangeSessions[1].capacity + ExchangeSessions[2].capacity)

InitExchange ==
    /\ \E cl \in [ExchangeStudents -> Classes], mj \in [ExchangeStudents -> Majors] :
          students = [i \in ExchangeStudents |->
                         NewStudent(i, [clazz |-> cl[i], major |-> mj[i],
                                        required_hours |-> 1, busy_slots |-> <<>>])]
    /\ sessions = [i \in DOMAIN ExchangeSessions |-> NewSession(i, ExchangeSessions[i])]
    /\ required_hours = 1
    /\ swap_iterations = 1
    /\ Constructed

SpecExchange == InitExchange /\ [][Next]_vars

(***************************************************************************)
(* Trials that overlap.  The engine runs its trials one after the other;   *)
(* here the loop body is cut where a parallel optimizer would cut it:      *)
(* lines 305-321 sample and check on the shared students and sessions,     *)
(* line 322 commits later, and up to Threads trials may have been checked  *)
(* and not yet committed.  Four students of any class, two sessions of two *)
(* seats.                                                                  *)
(***************************************************************************)
Threads == 2

\* Lines 305-321 of one trial: sample, check; a swap that passes is kept
\* for its commit.
CheckTrial ==
    /\ pc = "optimize"
    /\ trial < swap_iterations
    /\ Len(inflight.checked) < Threads
    /\ LET n == Len(student_ids)
       IN \E j1 \in Draw(n, pos + 1), j2 \in Draw(n - 1, pos + 2) :
            LET pair    == Sample2(student_ids, j1, j2)
                a       == pair[1]
                b       == pair[2]
                skipped == students[a].assigned = <<>> \/ students[b].assigned = <<>>
                na      == Len(students[a].assigned)
                nb      == Len(students[b].assigned)
                strm2   == Reveal(Reveal(stream, pos + 1, n, j1), pos + 2, n - 1, j2)
            IN \E ca \in (IF skipped THEN {0} ELSE Draw(na, pos + 3)),
                  cb \in (IF skipped THEN {0} ELSE Draw(nb, pos + 4)) :
                 LET sa   == IF skipped THEN 0 ELSE Choice(students[a].assigned, ca)
                     sb   == IF skipped THEN 0 ELSE Choice(students[b].assigned, cb)
                     res  == TrialResult(a, b, sa, sb, skipped)
                     pass == res.last.kind = "swapped"
                 IN /\ inflight' =
                          [checked |-> IF pass THEN Append(inflight.checked, res.last)
                                       ELSE inflight.checked,
                           overlapped |-> inflight.overlapped \/ inflight.checked # <<>>]
                    /\ last' = IF pass THEN [res.last EXCEPT !.kind = "checked"] ELSE res.last
                    /\ pc' = IF trial + 1 = swap_iterations /\ ~pass /\ inflight.checked = <<>>
                             THEN "done" ELSE "optimize"
                    /\ stream' = IF skipped THEN strm2
                                 ELSE Reveal(Reveal(strm2, pos + 3, na, ca), pos + 4, nb, cb)
                    /\ pos' = pos + (IF skipped THEN 2 ELSE 4)
    /\ trial' = trial + 1
    /\ UNCHANGED <<students, sessions, required_hours, swap_iterations, ordered_students,
                   cursor, assignments, student_ids, run, saved, slot_a, slot_b, verdict,
                   unfilled>>

\* Line 322 of a trial that passed its checks: _perform_swap on the students
\* and sessions as they are now.
CommitTrial ==
    /\ pc = "optimize"
    /\ \E k \in DOMAIN inflight.checked :
          LET t       == inflight.checked[k]
              swapped == _perform_swap(students, sessions, t.a, t.sa, t.b, t.sb)
          IN /\ students' = swapped.students
             /\ sessions' = swapped.sessions
             /\ last' = t
             /\ inflight' = [inflight EXCEPT !.checked =
                                SubSeq(@, 1, k - 1) \o SubSeq(@, k + 1, Len(@))]
    /\ pc' = IF trial = swap_iterations /\ Len(inflight.checked) = 1
             THEN "done" ELSE "optimize"
    /\ UNCHANGED <<required_hours, swap_iterations, ordered_students, cursor, assignments,
                   student_ids, trial, stream, pos, run, saved, slot_a, slot_b, verdict,
                   unfilled>>

InitInterleaved ==
    /\ \E cl \in [ExchangeStudents -> Classes] :
          students = [i \in ExchangeStudents |->
                         NewStudent(i, [clazz |-> cl[i], major |-> "",
                                        required_hours |-> 1, busy_slots |-> <<>>])]
    /\ sessions = [i \in DOMAIN ExchangeSessions |-> NewSession(i, ExchangeSessions[i])]
    /\ required_hours = 1
    /\ swap_iterations = MaxSwapIterations
    /\ Constructed

NextInterleaved ==
    \/ OrderStudents
    \/ Commit
    \/ NextStudent
    \/ StartOptimize
    \/ CheckTrial
    \/ CommitTrial
    \/ ReportUnfilled

SpecInterleaved == InitInterleaved /\ [][NextInterleaved]_vars

(***************************************************************************)
(* Students who may be left short: three students of any class, each with  *)
(* a target of one or two hours and possibly a lecture at the time of the  *)
(* second session; two one-hour sessions of two seats.                     *)
(***************************************************************************)
ShortfallStudents == 1..3

InitShortfall ==
    /\ \E cl \in [ShortfallStudents -> Classes],
          rh \in [ShortfallStudents -> 1..MaxHours],
          busy \in [ShortfallStudents -> {<<>>, <<BusySecond>>}] :
          students = [i \in ShortfallStudents |->
                         NewStudent(i, [clazz |-> cl[i], major |-> "M1",
                                        required_hours |-> rh[i], busy_slots |-> busy[i]])]
    /\ sessions = [i \in DOMAIN ExchangeSessions |-> NewSession(i, ExchangeSessions[i])]
    /\ required_hours = MaxHours
    /\ swap_iterations = MaxSwapIterations
    /\ Constructed

SpecShortfall == InitShortfall /\ [][Next]_vars

(***************************************************************************)
(* Sessions that grant no hours: a commit to one leaves the student as far *)
(* below target as before, and the constructor loop goes round again.      *)
(***************************************************************************)
ZeroHourProfiles ==
    << [project_name |-> "P1", weeks |-> {}, weekday |-> 1, start_period |-> 1,
        end_period |-> 2, capacity |-> 2, hours |-> 0],
       [project_name |-> "P2", weeks |-> {1}, weekday |-> 1, start_period |-> 1,
        end_period |-> 2, capacity |-> 2, hours |-> 0],
       [project_name |-> "P1", weeks |-> {2}, weekday |-> 2, start_period |-> 1,
        end_period |-> 1, capacity |-> 2, hours |-> 1] >>

InitZeroHours ==
    /\ \E ps \in Picks(NumStudents, Len(StudentProfiles)) :
          students = [i \in 1..NumStudents |-> NewStudent(i, StudentProfiles[ps[i]])]
    /\ \E ps \in Picks(NumSessions, Len(ZeroHourProfiles)) :
          sessions = [i \in 1..NumSessions |-> NewSession(i, ZeroHourProfiles[ps[i]])]
    /\ required_hours = 2
    /\ swap_iterations \in {0, MaxSwapIterations}
    /\ Constructed

\* The engine is sequential code on one thread: while the run is not over,
\* its next step is taken.  This is weak fairness of Next, WF_vars(Next),
\* with ENABLED <<Next>>_vars written out: every state but the last, in
\* which main has collected the warnings, has a step of Next.
Progress == []<>(pc = "reported") \/ []<><<Next>>_vars

SpecFair == InitZeroHours /\ [][Next]_vars /\ Progress

(***************************************************************************)
(* Properties of the constructor and the optimizer.                        *)
(***************************************************************************)
SlotOf(sid) == to_timeslot(sessions[sid])

\* A step of the optimizer loop, and a step of it that moved somebody.
TrialStep == pc = "optimize" /\ trial' = trial + 1

Moved == students' # students \/ sessions' # sessions

\* The student holds, besides the session given up, a session of the project.
HoldsElsewhere(stu, project, given_up) ==
    \E i \in DOMAIN stu.assigned :
        /\ stu.assigned[i] # given_up
        /\ sessions[stu.assigned[i]].project_name = project

\* C1: in every state, during construction and after every swap, no two
\* sessions a student holds have conflicting time slots, and no session a
\* student holds conflicts with one of the student's busy slots.
C1_NoConflict ==
    \A s \in DOMAIN students :
        LET stu == students[s]
        IN /\ \A i, j \in DOMAIN stu.assigned :
                 i # j => ~conflicts_with(SlotOf(stu.assigned[i]), SlotOf(stu.assigned[j]))
           /\ \A i \in DOMAIN stu.assigned, k \in DOMAIN stu.busy_slots :
                 /\ ~conflicts_with(stu.busy_slots[k], SlotOf(stu.assigned[i]))
                 /\ ~conflicts_with(SlotOf(stu.assigned[i]), stu.busy_slots[k])

\* A student with a busy slot holds two sessions after a swap was accepted,
\* while some session the student does not hold conflicts with one held.
C1_Witness ==
    /\ last.kind = "swapped"
    /\ \E s \in DOMAIN students :
          /\ Len(students[s].assigned) >= 2
          /\ \E t \in DOMAIN sessions, i \in DOMAIN students[s].assigned :
                /\ t \notin Range(students[s].assigned)
                /\ conflicts_with(SlotOf(t), SlotOf(students[s].assigned[i]))

\* C2: in every state, no two sessions a student holds share a project name
\* and taken_projects is exactly the set of project names of the sessions
\* the student holds.
C2_ProjectUnique ==
    \A s \in DOMAIN students :
        LET stu == students[s]
        IN /\ \A i, j \in DOMAIN stu.assigned :
                 i # j => sessions[stu.assigned[i]].project_name
                             # sessions[stu.assigned[j]].project_name
           /\ stu.taken_projects =
                 {sessions[stu.assigned[i]].project_name : i \in DOMAIN stu.assigned}

\* A swap exchanged sessions of two different projects.
C2_Witness ==
    /\ last.kind = "swapped"
    /\ sessions[last.sa].project_name # sessions[last.sb].project_name
    /\ \E s \in {last.a, last.b} : Len(students[s].assigned) >= 2

\* C3 as stated: every roster is at most the session's capacity.
C3_RosterWithinCapacity ==
    \A t \in DOMAIN sessions :
        Len(sessions[t].assigned_students) <= sessions[t].capacity

\* C3: starting from empty rosters, in every state every roster has at most
\* max(capacity, 0) members: at most the capacity when it is not negative,
\* none when it is negative.
C3_RosterWithinClampedCapacity ==
    \A t \in DOMAIN sessions :
        Len(sessions[t].assigned_students) <= MaxOf2(sessions[t].capacity, 0)

\* A session is full and a student below target is kept out of it by its
\* capacity alone.
C3_Witness ==
    \E t \in DOMAIN sessions, s \in DOMAIN students :
        /\ sessions[t].capacity > 0
        /\ Len(sessions[t].assigned_students) = sessions[t].capacity
        /\ pc = "done"
        /\ BelowTarget(students[s], sessions)
        /\ sessions[t].project_name \notin students[s].taken_projects
        /\ ~has_conflict(students[s], SlotOf(t), sessions)

\* C4: right after a swap is committed, each of the two students has
\* accumulated hours at or above the student's target.
C4_HoursFloor ==
    last.kind = "swapped" =>
        \A s \in {last.a, last.b} :
            _student_hours(students[s], sessions) >= _target_hours(students[s])

\* A committed swap exchanged sessions that grant different hours.
C4_Witness ==
    /\ last.kind = "swapped"
    /\ sessions[last.sa].hours # sessions[last.sb].hours

HeldBefore(k) ==
    LET idx == FilterIdx(k - 1, 1, {j \in 1..(k - 1) : assignments[j][1] = assignments[k][1]})
    IN [i \in DOMAIN idx |-> assignments[idx[i]][2]]

\* C7: every constructor commit is made while the student's accumulated
\* hours are strictly below the target; so each student's hours without the
\* last committed session are below the target.  Until the optimizer moves
\* somebody, the sessions a student holds are the ones committed.
C7_CommitBelowTarget ==
    /\ \A k \in DOMAIN assignments :
          SumHours(HeldBefore(k), sessions) < _target_hours(students[assignments[k][1]])
    /\ (pc = "construct" \/ last.kind = "none") =>
          \A s \in DOMAIN students :
              students[s].assigned =
                 LET idx == FilterIdx(Len(assignments), 1,
                               {j \in DOMAIN assignments : assignments[j][1] = s})
                 IN [i \in DOMAIN idx |-> assignments[idx[i]][2]]

\* Construction is over and a student holding two sessions ends above
\* target, by less than the last committed session's hours.
C7_Witness ==
    /\ pc = "done"
    /\ last.kind = "none"
    /\ \E s \in DOMAIN students :
          /\ Len(students[s].assigned) >= 2
          /\ _student_hours(students[s], sessions) > _target_hours(students[s])

\* C8: a trial in which a student would receive a session whose project the
\* student holds in another session than the one given up changes nothing.
C8_ProjectGate ==
    [][ (/\ TrialStep
         /\ last'.kind # "unassigned"
         /\ last'.sa # last'.sb
         /\ \/ HoldsElsewhere(students[last'.a], sessions[last'.sb].project_name, last'.sa)
            \/ HoldsElsewhere(students[last'.b], sessions[last'.sa].project_name, last'.sb))
        => ~Moved ]_vars

\* A trial was rejected because of the project, although the swap would
\* have lowered the summed metric of the two sessions.
C8_Witness ==
    /\ last.kind = "infeasible"
    /\ \/ HoldsElsewhere(students[last.a], sessions[last.sb].project_name, last.sa)
       \/ HoldsElsewhere(students[last.b], sessions[last.sa].project_name, last.sb)
    /\ FlLess(AfterDiv(students, sessions, last.a, last.sa, last.b, last.sb),
              BeforeDiv(students, sessions, last.sa, last.sb))

\* The heterogeneity metric of every session at once, exactly: the sum over
\* the sessions of distinct / size, in units of 1 / MetricScale (a common
\* multiple of the roster sizes up to ten).
MetricScale == 8 * 9 * 5 * 7

RECURSIVE TotalMetric(_, _, _)
TotalMetric(studs, sess, t) ==
    IF t > Len(sess) THEN 0
    ELSE LET roster  == sess[t].assigned_students
             classes == {studs[roster[i]].clazz : i \in DOMAIN roster} \ {""}
             majors  == {studs[roster[i]].major : i \in DOMAIN roster} \ {""}
         IN (IF roster = <<>> THEN 0
             ELSE MaxOf2(Cardinality(classes), Cardinality(majors))
                     * (MetricScale \div Len(roster)))
            + TotalMetric(studs, sess, t + 1)

\* C6 as stated: over the optimizer trials the sum over all sessions of the
\* metric max(distinct classes, distinct majors) / roster size never goes
\* up from one trial to the next, and goes strictly down on every trial
\* that commits a swap.
C6_MonotoneImprovement ==
    [][ TrialStep =>
           /\ TotalMetric(students', sessions', 1) <= TotalMetric(students, sessions, 1)
           /\ Moved => TotalMetric(students', sessions', 1) < TotalMetric(students, sessions, 1)
      ]_vars

\* A swap was committed although undoing it gives exactly the same sum.
C6_TieCommitted ==
    /\ last.kind = "swapped"
    /\ LET undone == _perform_swap(students, sessions, last.b, last.sa, last.a, last.sb)
       IN TotalMetric(undone.students, undone.sessions, 1)
             = TotalMetric(students, sessions, 1)

\* C9: a second run with the same seed on the same students, sessions and
\* trial count ends with the same sequence of constructor commits, the same
\* rosters and the same assigned lists as the first.
C9_Deterministic ==
    (run = 2 /\ pc = "done") =>
        /\ assignments = saved.assignments
        /\ [t \in DOMAIN sessions |-> sessions[t].assigned_students] = saved.rosters
        /\ [i \in DOMAIN students |-> students[i].assigned] = saved.assigned

\* The second run is over; the shuffle had reordered a group and the trial
\* had committed a swap.
C9_Witness ==
    /\ run = 2
    /\ pc = "done"
    /\ last.kind = "swapped"
    /\ \E i \in 1..(Len(ordered_students) - 1) :
          /\ GroupKey(students[ordered_students[i]]) = GroupKey(students[ordered_students[i + 1]])
          /\ ordered_students[i] > ordered_students[i + 1]

\* C10: conflicts_with(a, b) is true exactly when both week sets are not
\* empty, the weekdays are equal, the week sets intersect and the period
\* ranges overlap; a slot with an empty week set conflicts with no slot,
\* itself included.
C10_ConflictExact ==
    verdict.checked =>
        /\ verdict.ab <=>
              /\ slot_a.weeks # {}
              /\ slot_b.weeks # {}
              /\ slot_a.weekday = slot_b.weekday
              /\ slot_a.weeks \cap slot_b.weeks # {}
              /\ ~(slot_a.end_period < slot_b.start_period
                     \/ slot_b.end_period < slot_a.start_period)
        /\ slot_a.weeks = {} => (~verdict.ab /\ ~verdict.ba /\ ~verdict.aa)

\* Two slots with different, intersecting week sets were found to conflict.
C10_Witness ==
    /\ verdict.checked
    /\ verdict.ab
    /\ slot_a.weeks # slot_b.weeks
    /\ slot_a.start_period < slot_b.start_period

\* C11: the conflict predicate is symmetric and pure: evaluating it on two
\* slots gives the same answer in both argument orders, and leaves both
\* slots as they were.
C11_SymmetricPure ==
    [][CheckConflict =>
          /\ verdict'.ab = verdict'.ba
          /\ slot_a' = slot_a
          /\ slot_b' = slot_b]_vars

\* Two different slots, the first ending later, were found to conflict in
\* both argument orders.
C11_Witness ==
    /\ verdict.checked
    /\ verdict.ab /\ verdict.ba
    /\ slot_a # slot_b
    /\ slot_a.end_period > slot_b.end_period

\* The session has a free seat, carries a project the student has not taken,
\* and conflicts with none of the student's busy slots or assigned sessions.
Eligible(stu, t) ==
    /\ remaining(sessions[t]) > 0
    /\ sessions[t].project_name \notin stu.taken_projects
    /\ \A i \in DOMAIN stu.busy_slots : ~conflicts_with(stu.busy_slots[i], SlotOf(t))
    /\ \A i \in DOMAIN stu.assigned : ~conflicts_with(SlotOf(stu.assigned[i]), SlotOf(t))

\* C12: every constructor commit gives the student being served a session
\* that, at the moment of the commit, has a free seat, a project the student
\* has not taken, and no conflict with the student's busy slots or assigned
\* sessions; and the constructor moves on from a student who is below target
\* only when no such session exists at that moment.
C12_CommitEligible ==
    [][(pc = "construct" /\ cursor <= Len(ordered_students)) =>
          LET stu == students[ordered_students[cursor]]
          IN /\ assignments' # assignments =>
                   /\ assignments' = Append(assignments, assignments'[Len(assignments')])
                   /\ assignments'[Len(assignments')][1] = stu.student_id
                   /\ Eligible(stu, assignments'[Len(assignments')][2])
             /\ (cursor' # cursor /\ _student_hours(stu, sessions) < _target_hours(stu)) =>
                   \A t \in DOMAIN sessions : ~Eligible(stu, t)]_vars

\* The constructor has moved on from a student who was given a session and
\* is still below target.
C12_Witness ==
    /\ pc = "construct"
    /\ cursor > 1
    /\ LET stu == students[ordered_students[cursor - 1]]
       IN /\ stu.assigned # <<>>
          /\ _student_hours(stu, sessions) < _target_hours(stu)

\* C13: the reported shortfall of a student is max(target - hours, 0) with
\* the student's own target (the global default when the student's is zero):
\* report_unfilled flags a student exactly when the student's hours are below
\* that target, and the amount it names is the difference.
C13_ShortfallByOwnTarget ==
    pc = "reported" =>
        \A i \in DOMAIN students :
            LET need == _target_hours(students[i]) - _student_hours(students[i], sessions)
            IN /\ (need > 0) <=> (\E k \in DOMAIN unfilled : unfilled[k][1] = i)
               /\ \A k \in DOMAIN unfilled : unfilled[k][1] = i => unfilled[k][2] = need

\* A student whose own target is met is reported as short of hours.
C13_FlaggedAtTarget ==
    /\ pc = "reported"
    /\ \E k \in DOMAIN unfilled :
          LET stu == students[unfilled[k][1]]
          IN /\ stu.required_hours # 0
             /\ _student_hours(stu, sessions) >= stu.required_hours

\* Every session there is conflicts with one of the student's busy slots.
Blocked(stu) ==
    \A t \in DOMAIN sessions :
        \E i \in DOMAIN stu.busy_slots : conflicts_with(stu.busy_slots[i], SlotOf(t))

\* max(target - hours, 0): the student's shortfall.
Shortfall(stu) ==
    IF _target_hours(stu) - _student_hours(stu, sessions) > 0
    THEN _target_hours(stu) - _student_hours(stu, sessions)
    ELSE 0

\* C14: a student every session of whom is ruled out by a busy slot is left
\* alone by the whole run, constructor and optimizer: the student's assigned
\* list stays empty and taken_projects stays as it was (empty), no roster
\* contains the student, and the student's shortfall is the full target.
\* (What report_unfilled prints for the student is the subject of C13.)
C14_InfeasibleLeftUnserved ==
    pc \in {"constructed", "construct", "optimize", "done", "reported"} =>
        \A i \in DOMAIN students :
            Blocked(students[i]) =>
                /\ students[i].assigned = <<>>
                /\ students[i].taken_projects = {}
                /\ \A t \in DOMAIN sessions : i \notin Range(sessions[t].assigned_students)
                /\ Shortfall(students[i]) = _target_hours(students[i])

\* The run is over; a student with a lecture was blocked from every session
\* although seats were left, and another student was served.
C14_Witness ==
    /\ pc = "reported"
    /\ \E i \in DOMAIN students :
          /\ Blocked(students[i])
          /\ _target_hours(students[i]) > 0
          /\ \E t \in DOMAIN sessions : remaining(sessions[t]) > 0
          /\ \E j \in DOMAIN students : students[j].assigned # <<>>

\* The inputs of Scenario A: a single session with as many seats as there
\* are students, every student free of lectures and with the session's
\* hours as target.
ScenarioA ==
    /\ Len(sessions) = 1
    /\ sessions[1].capacity = Len(students)
    /\ \A i \in DOMAIN students :
          /\ students[i].busy_slots = <<>>
          /\ _target_hours(students[i]) = sessions[1].hours

\* Everybody is on the roster of the single session, which is full, and
\* nobody has a shortfall.
AllServed ==
    /\ \A i \in DOMAIN students : i \in Range(sessions[1].assigned_students)
    /\ remaining(sessions[1]) = 0
    /\ \A i \in DOMAIN students : Shortfall(students[i]) = 0
    /\ pc = "reported" => unfilled = <<>>

\* C15 as stated, for every h: with n students of target h and no lectures
\* and a single session of n seats and h hours, the run ends with all n
\* students on the roster, no seat remaining and no shortfall.
C15_OneSessionServesAll ==
    (ScenarioA /\ pc \in {"done", "reported"}) => AllServed

\* C15 for h >= 1: with n students of target h >= 1 and no lectures and a
\* single session of n seats and h hours, the run ends with all n students
\* on the roster, no seat remaining and no shortfall.  (With h = 0 nobody
\* is below target, the constructor commits nothing and the roster stays
\* empty.)
C15_OneSessionServesAllPositive ==
    (ScenarioA /\ sessions[1].hours >= 1 /\ pc \in {"done", "reported"}) => AllServed

\* The run is over and three students share the full session.
C15_Witness ==
    /\ ScenarioA
    /\ pc = "reported"
    /\ sessions[1].hours >= 1
    /\ Len(sessions[1].assigned_students) = 3
    /\ AllServed

\* The members of the session other than the student.
Others(t, stu) == {m \in Range(sessions[t].assigned_students) : m # stu}

\* Scenario C for the sampled pairs (a, sa) and (b, sb): two sessions of two
\* members each; a is of one class and the only other member of sa of a
\* second class, b is of the second class and the only other member of sb
\* of the first.
ScenarioC(a, sa, b, sb) ==
    /\ sa \in DOMAIN sessions /\ sb \in DOMAIN sessions /\ sa # sb
    /\ a \in Range(sessions[sa].assigned_students)
    /\ b \in Range(sessions[sb].assigned_students)
    /\ Len(sessions[sa].assigned_students) = 2
    /\ Len(sessions[sb].assigned_students) = 2
    /\ students[a].clazz # "" /\ students[b].clazz # ""
    /\ students[a].clazz # students[b].clazz
    /\ \E m \in Others(sa, a) : TRUE
    /\ \E m \in Others(sb, b) : TRUE
    /\ \A m \in Others(sa, a) : students[m].clazz = students[b].clazz
    /\ \A m \in Others(sb, b) : students[m].clazz = students[a].clazz

\* The members of the roster the session would have with stu in place of
\* the leaving member carry at most one major between them.
OneMajor(t, leaving, stu) ==
    Cardinality({students[m].major : m \in Others(t, leaving) \cup {stu}} \ {""}) <= 1

\* The trial just taken sampled Scenario C and the exchange was feasible.
ScenarioCTrial ==
    /\ TrialStep
    /\ ScenarioC(last'.a, last'.sa, last'.b, last'.sb)
    /\ _can_swap(students[last'.a], sessions[last'.sa],
                 students[last'.b], sessions[last'.sb], sessions)

\* The swap was committed and left each of the two sessions with members of
\* a single class: those of b's class in sa, those of a's class in sb.
SwappedHomogeneous ==
    /\ last'.kind = "swapped"
    /\ \A m \in Range(sessions'[last'.sa].assigned_students) :
          students[m].clazz = students[last'.b].clazz
    /\ \A m \in Range(sessions'[last'.sb].assigned_students) :
          students[m].clazz = students[last'.a].clazz

\* C16 as stated: a trial that samples Scenario C, the exchange being
\* feasible, commits the swap and leaves both sessions homogeneous in class,
\* whatever the majors of the four students.
C16_ScenarioCAccepted ==
    [][ScenarioCTrial => SwappedHomogeneous]_vars

\* C16 with the majors taken into account: a trial that samples Scenario C,
\* the exchange being feasible, commits the swap and leaves both sessions
\* homogeneous in class, provided at least one of the two rosters after the
\* exchange carries at most one major (the metric is max(classes, majors) /
\* size, so two majors in both rosters keep the sum at 2.0).
C16_ScenarioCAcceptedOneMajor ==
    [][(/\ ScenarioCTrial
        /\ \/ OneMajor(last'.sa, last'.a, last'.b)
           \/ OneMajor(last'.sb, last'.b, last'.a)) => SwappedHomogeneous]_vars

\* A swap was committed from a sum of 2.0, and each of the two sessions now
\* holds two students of one class, the classes of the sessions differing.
C16_Witness ==
    /\ last.kind = "swapped"
    /\ last.before_div = FlAdd(FlOne, FlOne)
    /\ \A m \in Range(sessions[last.sa].assigned_students) :
          students[m].clazz = students[last.b].clazz
    /\ \A m \in Range(sessions[last.sb].assigned_students) :
          students[m].clazz = students[last.a].clazz
    /\ students[last.a].clazz # students[last.b].clazz
    /\ Len(sessions[last.sa].assigned_students) = 2

\* C17 as stated: in Scenario C the gate's summed metric is 1.0 + 1.0 = 2.0
\* before the swap and 0.0 + 0.0 = 0.0 for the rosters after it, each
\* homogeneous.
C17_MetricTwoToZero ==
    [][(/\ ScenarioCTrial
        /\ OneMajor(last'.sa, last'.a, last'.b)
        /\ OneMajor(last'.sb, last'.b, last'.a)) =>
          /\ last'.before_div = FlDivInt(2, 1)
          /\ last'.after_div = FlZero]_vars

\* C17 with the metric as computed: in Scenario C the gate's summed metric
\* is 1.0 + 1.0 = 2.0 before the swap and 0.5 + 0.5 = 1.0 for the rosters
\* after it, each of one class and at most one major (one distinct group
\* among two members).
C17_MetricTwoToOne ==
    [][(/\ ScenarioCTrial
        /\ OneMajor(last'.sa, last'.a, last'.b)
        /\ OneMajor(last'.sb, last'.b, last'.a)) =>
          /\ last'.before_div = FlDivInt(2, 1)
          /\ last'.after_div = FlOne]_vars

\* The gate saw the sum 2.0 before and 1.0 after, and the swap was made.
C17_Witness ==
    /\ last.kind = "swapped"
    /\ last.before_div = FlDivInt(2, 1)
    /\ last.after_div = FlOne
    /\ Len(sessions[last.sa].assigned_students) = 2
    /\ Len(sessions[last.sb].assigned_students) = 2

\* C18: a session whose capacity is zero or negative has remaining = 0 in
\* every state and is never selected: its roster is empty in every state,
\* through every constructor commit and every optimizer trial, and no
\* student's assigned list names it.
C18_NoSeatsNeverSelected ==
    \A t \in DOMAIN sessions :
        sessions[t].capacity <= 0 =>
            /\ remaining(sessions[t]) = 0
            /\ sessions[t].assigned_students = <<>>
            /\ \A i \in DOMAIN students : t \notin Range(students[i].assigned)

\* After the constructor and the optimizer trials, a session without seats
\* is still empty while a student below target has not taken its project
\* and has no conflict with it.
C18_Witness ==
    /\ pc = "done"
    /\ trial > 0
    /\ \E t \in DOMAIN sessions, i \in DOMAIN students :
          /\ sessions[t].capacity <= 0
          /\ sessions[t].assigned_students = <<>>
          /\ _student_hours(students[i], sessions) < _target_hours(students[i])
          /\ sessions[t].project_name \notin students[i].taken_projects
          /\ ~has_conflict(students[i], SlotOf(t), sessions)

\* The commits the constructor has made for the student so far.
CommitsOf(i) == {k \in DOMAIN assignments : assignments[k][1] = i}

\* The distinct project names of the timetable.
ProjectNames == {sessions[t].project_name : t \in DOMAIN sessions}

\* C19: assign() terminates; on the way each student receives at most one
\* commit per distinct project name (no two commits of a student carry the
\* same project, hence at most |sessions| commits, also when sessions grant
\* no hours), the optimizer performs at most swap_iterations trials, and once
\* assign() has returned no student and no session changes any more.
C19_Terminates ==
    /\ <>(pc = "done")
    /\ [](\A i \in DOMAIN students :
             /\ \A k, l \in CommitsOf(i) :
                   k # l => sessions[assignments[k][2]].project_name
                              # sessions[assignments[l][2]].project_name
             /\ Cardinality(CommitsOf(i)) <= Cardinality(ProjectNames)
             /\ Cardinality(CommitsOf(i)) <= Len(sessions))
    /\ [](trial <= swap_iterations)
    /\ [][(pc = "done" \/ pc = "reported") =>
             /\ students' = students
             /\ sessions' = sessions
             /\ assignments' = assignments
             /\ trial' = trial]_vars

\* assign() has returned after all its trials, and a student was given two
\* sessions, one of them granting no hours.
C19_Witness ==
    /\ pc = "done"
    /\ swap_iterations > 0
    /\ trial = swap_iterations
    /\ \E i \in DOMAIN students :
          /\ Cardinality(CommitsOf(i)) >= 2
          /\ \E k \in CommitsOf(i) : sessions[assignments[k][2]].hours = 0

\* The number of times x occurs in the list.
Count(list, x) == Cardinality({k \in DOMAIN list : list[k] = x})

\* new is old with one occurrence of out removed and one of in added.
Exchanged(old, new, out, in) ==
    /\ Len(new) = Len(old)
    /\ \A x \in Range(old) \cup Range(new) \cup {out, in} :
          Count(new, x) = Count(old, x) + (IF x = in THEN 1 ELSE 0)
                                        - (IF x = out THEN 1 ELSE 0)

\* taken_projects after the swap: the given-up project leaves exactly when
\* no session the student still holds carries it, the received one is in.
TakenAfter(old_taken, new_assigned, given_up, received) ==
    (old_taken \ (IF \E k \in DOMAIN new_assigned :
                        sessions[new_assigned[k]].project_name = given_up
                  THEN {} ELSE {given_up}))
       \cup {received}

\* C20: an accepted swap of (A, session_a) with (B, session_b) changes the
\* roster of session_a to its old roster with A removed and B added, the
\* roster of session_b to its old one with B removed and A added, A's
\* assigned list to its old one with session_a replaced by session_b, B's
\* with session_b replaced by session_a; each of the two loses the given-up
\* project from taken_projects only if no session the student still holds
\* carries it, and gains the received project; every other session and
\* every other student stay as they were, as do the busy slots and all
\* other fields of A and B and of the two sessions.
C20_SwapEffect ==
    [][(TrialStep /\ last'.kind = "swapped") =>
          LET a  == last'.a
              b  == last'.b
              sa == last'.sa
              sb == last'.sb
          IN /\ Exchanged(sessions[sa].assigned_students, sessions'[sa].assigned_students, a, b)
             /\ Exchanged(sessions[sb].assigned_students, sessions'[sb].assigned_students, b, a)
             /\ Exchanged(students[a].assigned, students'[a].assigned, sa, sb)
             /\ Exchanged(students[b].assigned, students'[b].assigned, sb, sa)
             /\ students'[a].taken_projects =
                   TakenAfter(students[a].taken_projects, students'[a].assigned,
                              sessions[sa].project_name, sessions[sb].project_name)
             /\ students'[b].taken_projects =
                   TakenAfter(students[b].taken_projects, students'[b].assigned,
                              sessions[sb].project_name, sessions[sa].project_name)
             /\ \A t \in DOMAIN sessions : t \notin {sa, sb} => sessions'[t] = sessions[t]
             /\ \A i \in DOMAIN students : i \notin {a, b} => students'[i] = students[i]
             /\ \A t \in {sa, sb} :
                   sessions'[t] = [sessions[t] EXCEPT
                                      !.assigned_students = sessions'[t].assigned_students]
             /\ \A i \in {a, b} :
                   students'[i] = [students[i] EXCEPT
                                      !.assigned = students'[i].assigned,
                                      !.taken_projects = students'[i].taken_projects]]_vars

\* A swap was made between two students of whom one holds a second session,
\* while a third student and a third session stood by.
C20_Witness ==
    /\ last.kind = "swapped"
    /\ Len(students[last.a].assigned) + Len(students[last.b].assigned) >= 3
    /\ \E i \in DOMAIN students : i \notin {last.a, last.b} /\ students[i].assigned # <<>>
    /\ last.b \in Range(sessions[last.sa].assigned_students)
    /\ last.a \in Range(sessions[last.sb].assigned_students)

\* The student, receiving the session, would clash with a held session other
\* than the one given up, or with a busy slot.
NewConflict(stu, received, given_up) ==
    \/ \E i \in DOMAIN stu.assigned :
          /\ stu.assigned[i] # given_up
          /\ conflicts_with(SlotOf(stu.assigned[i]), SlotOf(received))
    \/ \E k \in DOMAIN stu.busy_slots : conflicts_with(stu.busy_slots[k], SlotOf(received))

\* The student's hours after the exchange would be below the target.
HoursBelowTarget(stu, given_up, received) ==
    _student_hours(stu, sessions) - sessions[given_up].hours + sessions[received].hours
       < _target_hours(stu)

\* One of the reasons to reject the sampled exchange holds in this state.
MustReject(a, sa, b, sb) ==
    \/ sa = sb
    \/ HoldsElsewhere(students[a], sessions[sb].project_name, sa)
    \/ HoldsElsewhere(students[b], sessions[sa].project_name, sb)
    \/ NewConflict(students[a], sb, sa)
    \/ NewConflict(students[b], sa, sb)
    \/ HoursBelowTarget(students[a], sa, sb)
    \/ HoursBelowTarget(students[b], sb, sa)
    \/ ~FlLess(AfterDiv(students, sessions, a, sa, b, sb),
               BeforeDiv(students, sessions, sa, sb))

\* C21: a rejected optimizer trial is a no-op: when the two sampled session
\* ids are identical, or the project is held elsewhere, or a new time
\* conflict would arise, or the hours would fall below the target, or the
\* improvement gate fails, every roster, every assigned list and every
\* taken_projects set is after the trial exactly what it was before.
C21_RejectedNoOp ==
    [][ (TrialStep /\ MustReject(last'.a, last'.sa, last'.b, last'.sb)) =>
           /\ \A t \in DOMAIN sessions :
                 sessions'[t].assigned_students = sessions[t].assigned_students
           /\ \A i \in DOMAIN students :
                 /\ students'[i].assigned = students[i].assigned
                 /\ students'[i].taken_projects = students[i].taken_projects ]_vars

\* A trial was rejected for a time conflict alone: neither project nor hours
\* stood in the way and the exchange would have lowered the summed metric.
C21_Witness ==
    /\ last.kind = "infeasible"
    /\ \/ NewConflict(students[last.a], last.sb, last.sa)
       \/ NewConflict(students[last.b], last.sa, last.sb)
    /\ ~HoldsElsewhere(students[last.a], sessions[last.sb].project_name, last.sa)
    /\ ~HoldsElsewhere(students[last.b], sessions[last.sa].project_name, last.sb)
    /\ ~HoursBelowTarget(students[last.a], last.sa, last.sb)
    /\ ~HoursBelowTarget(students[last.b], last.sb, last.sa)
    /\ FlLess(AfterDiv(students, sessions, last.a, last.sa, last.b, last.sb),
              BeforeDiv(students, sessions, last.sa, last.sb))

\* The list new is the list old with entries appended.
Extends(new, old) ==
    /\ Len(new) >= Len(old)
    /\ SubSeq(new, 1, Len(old)) = old

\* C22: the constructor never backtracks: from construction until the
\* optimizer starts, every step leaves each session's roster, each student's
\* assigned list and the list of commit events an extension of what it was,
\* and each student's taken_projects a superset of what it was.
C22_NoBacktracking ==
    [][ (pc = "constructed" \/ pc = "construct") =>
           /\ \A t \in DOMAIN sessions :
                 Extends(sessions'[t].assigned_students, sessions[t].assigned_students)
           /\ \A i \in DOMAIN students :
                 /\ Extends(students'[i].assigned, students[i].assigned)
                 /\ students[i].taken_projects \subseteq students'[i].taken_projects
           /\ Extends(assignments', assignments) ]_vars

\* The constructor is at work, has served one student and has given the
\* student it serves now the second session.
C22_Witness ==
    /\ pc = "construct"
    /\ cursor > 1
    /\ cursor <= Len(ordered_students)
    /\ Len(students[ordered_students[cursor]].assigned) = 2
    /\ Len(assignments) >= 3

\* The number of students that share the student's grouping key.
GroupSize(i) ==
    Cardinality({j \in DOMAIN students : GroupKey(students[j]) = GroupKey(students[i])})

\* In the list of student ids: the entries of one student are contiguous,
\* the students of one group are contiguous, and no student of a strictly
\* smaller group comes before a student of a larger one.
GroupedLargerFirst(ids) ==
    /\ \A k, l, m \in DOMAIN ids :
          (k < l /\ l < m) =>
             /\ ids[k] = ids[m] => ids[l] = ids[k]
             /\ GroupKey(students[ids[k]]) = GroupKey(students[ids[m]])
                   => GroupKey(students[ids[l]]) = GroupKey(students[ids[k]])
    /\ \A k, l \in DOMAIN ids :
          GroupSize(ids[k]) > GroupSize(ids[l]) => k < l

\* C23: students are grouped by clazz, else major, else the catch-all key;
\* the visiting order lists every student once, group by group, larger
\* groups first; and in the sequence of commit events the commits of one
\* student are contiguous, the students of one group are contiguous, and
\* every student of a group comes before every student of a strictly
\* smaller group.
C23_VisitingOrder ==
    /\ pc \in {"construct", "optimize", "done", "reported"} =>
          /\ Len(ordered_students) = Len(students)
          /\ Range(ordered_students) = DOMAIN students
          /\ GroupedLargerFirst(ordered_students)
    /\ GroupedLargerFirst([k \in DOMAIN assignments |-> assignments[k][1]])

\* Three students in a group of two and a group of one have all been given
\* a session, the shuffle having put the pair in the reverse of input order.
C23_Witness ==
    /\ Cardinality({assignments[k][1] : k \in DOMAIN assignments}) = 3
    /\ \E k, l \in DOMAIN assignments :
          /\ k < l
          /\ assignments[k][1] > assignments[l][1]
          /\ GroupKey(students[assignments[k][1]]) = GroupKey(students[assignments[l][1]])
    /\ \E k \in DOMAIN assignments : GroupSize(assignments[k][1]) = 1

\* The score tuple x comes before y in lexicographic order: at the first
\* component where they differ, x is smaller.
LexBefore(x, y) ==
    \E c \in 1..4 :
        /\ \A d \in 1..(c - 1) : x[d] = y[d]
        /\ x[c] # y[c]
        /\ IF c <= 2 THEN FlLess(x[c], y[c]) ELSE x[c] < y[c]

\* A step of the constructor that commits a session; the student served and
\* the session committed.
CommitStep == pc = "construct" /\ Len(assignments') = Len(assignments) + 1

Served == students[ordered_students[cursor]]

\* C24: at each constructor step the committed session is a candidate, no
\* candidate has a 4-tuple score lexicographically below the committed
\* session's, and every candidate with an equal score comes later in the
\* input session list.
C24_SelectionRule ==
    [][ CommitStep =>
           LET chosen == assignments'[Len(assignments')][2]
               cands  == Range(_candidate_sessions(Served, students, sessions))
               key(t) == _score(Served, sessions[t], students, sessions)
           IN /\ chosen \in cands
              /\ \A t \in cands :
                    /\ ~LexBefore(key(t), key(chosen))
                    /\ key(t) = key(chosen) => chosen <= t ]_vars

\* The constructor chose, by input order, between two candidates with the
\* same score, while a third candidate had a larger one.
C24_Witness ==
    /\ pc = "construct"
    /\ assignments # <<>>
    /\ LET k       == Len(assignments)
           chosen  == assignments[k][2]
           sid     == assignments[k][1]
           before  == [students EXCEPT
                          ![sid].assigned = SubSeq(@, 1, Len(@) - 1),
                          ![sid].taken_projects = @ \ {sessions[chosen].project_name}]
           rosters == [sessions EXCEPT
                          ![chosen].assigned_students = SubSeq(@, 1, Len(@) - 1)]
           cands   == Range(_candidate_sessions(before[sid], before, rosters))
           key(t)  == _score(before[sid], rosters[t], before, rosters)
       IN /\ \E t \in cands : t > chosen /\ key(t) = key(chosen)
          /\ \E t \in cands : LexBefore(key(chosen), key(t))

\* The fill fraction roster size / capacity of session t is at most that of
\* session u, as exact fractions; both capacities are positive.
FillAtMost(t, u) ==
    Len(sessions[t].assigned_students) * sessions[u].capacity
       <= Len(sessions[u].assigned_students) * sessions[t].capacity

\* C25: with the occupancy weight above zero (the engine runs with 1.0),
\* every session the constructor commits has, when it is committed, the
\* least fill fraction roster size / capacity among the candidates of the
\* student: no candidate with a strictly lower fill fraction is passed over.
C25_LeastFilledFirst ==
    [][ CommitStep =>
           LET chosen == assignments'[Len(assignments')][2]
           IN \A t \in Range(_candidate_sessions(Served, students, sessions)) :
                 /\ sessions[t].capacity > 0
                 /\ FillAtMost(chosen, t) ]_vars

\* The students and the sessions as they were before the last commit of the
\* constructor (while no swap has been made).
StudentsBeforeLast ==
    LET sid    == assignments[Len(assignments)][1]
        chosen == assignments[Len(assignments)][2]
    IN [students EXCEPT
           ![sid].assigned = SubSeq(@, 1, Len(@) - 1),
           ![sid].taken_projects = @ \ {sessions[chosen].project_name}]

SessionsBeforeLast ==
    LET chosen == assignments[Len(assignments)][2]
    IN [sessions EXCEPT ![chosen].assigned_students = SubSeq(@, 1, Len(@) - 1)]

\* The constructor committed the emptier session although a fuller
\* candidate scored better on class clustering and came earlier in the
\* session list.
C25_Witness ==
    /\ pc = "construct"
    /\ assignments # <<>>
    /\ LET sid    == assignments[Len(assignments)][1]
           chosen == assignments[Len(assignments)][2]
           studs  == StudentsBeforeLast
           sess   == SessionsBeforeLast
       IN \E t \in Range(_candidate_sessions(studs[sid], studs, sess)) :
             /\ t < chosen
             /\ Len(sess[chosen].assigned_students) * sess[t].capacity
                   < Len(sess[t].assigned_students) * sess[chosen].capacity
             /\ FlLess(_score(studs[sid], sess[t], studs, sess)[2],
                       _score(studs[sid], sess[chosen], studs, sess)[2])

\* C26 as stated: the draws a Scheduler's assign() consumes are fixed by the
\* seed given to that Scheduler alone: the repeated run, same seed and same
\* inputs, consumes the same sequence of draws as the first, whatever
\* happened between its construction and its assign().
C26_StreamBySeedAlone ==
    (run = 2 /\ pc = "done") => SubSeq(stream, 1, pos) = saved.draws

\* The repeated run, given the same seed, drew other numbers than the first
\* and committed other sessions.
C26_ForeignSeedChangesDraws ==
    /\ run = 2
    /\ pc = "done"
    /\ Len(saved.draws) = pos
    /\ SubSeq(stream, 1, pos) # saved.draws
    /\ assignments # saved.assignments

\* No roster is longer than the session's capacity, and no student holds two
\* sessions of one project.
RostersAndProjectsSafe ==
    /\ \A t \in DOMAIN sessions :
          Len(sessions[t].assigned_students) <= sessions[t].capacity
    /\ \A i \in DOMAIN students :
          \A k, l \in DOMAIN students[i].assigned :
              k # l => sessions[students[i].assigned[k]].project_name
                         # sessions[students[i].assigned[l]].project_name

\* C27: as long as every trial's check and commit form one unit, no trial
\* being checked while another waits for its commit, no roster exceeds its
\* capacity and no student holds two sessions of the same project; once two
\* trials have both been checked before either commits, such a state is
\* reachable (the witness).
C27_AtomicTrialsSafe ==
    ~inflight.overlapped => RostersAndProjectsSafe

\* Two trials were checked before either committed, both committed, and a
\* roster is longer than the session's capacity.
C27_Witness ==
    /\ inflight.overlapped
    /\ inflight.checked = <<>>
    /\ \E t \in DOMAIN sessions :
          Len(sessions[t].assigned_students) > sessions[t].capacity

\* C28: through constructor commits and accepted swaps the membership links
\* stay consistent: a student id is on a session's roster exactly when the
\* session's id is in the student's assigned list, and neither list holds
\* an entry twice.
C28_LinksConsistent ==
    /\ \A i \in DOMAIN students, t \in DOMAIN sessions :
          i \in Range(sessions[t].assigned_students) <=> t \in Range(students[i].assigned)
    /\ \A t \in DOMAIN sessions :
          \A k, l \in DOMAIN sessions[t].assigned_students :
              k # l => sessions[t].assigned_students[k] # sessions[t].assigned_students[l]
    /\ \A i \in DOMAIN students :
          \A k, l \in DOMAIN students[i].assigned :
              k # l => students[i].assigned[k] # students[i].assigned[l]

\* After a committed swap a student holds two sessions and a session seats
\* two students.
C28_Witness ==
    /\ last.kind = "swapped"
    /\ \E i \in DOMAIN students : Len(students[i].assigned) >= 2
    /\ \E t \in DOMAIN sessions : Len(sessions[t].assigned_students) >= 2

\* The students who hold at least one session, in dictionary order.
Assigned == FilterIdx(Len(students), 1, {i \in DOMAIN students : students[i].assigned # <<>>})

\* C29: the optimizer preserves sizes: every trial leaves the length of
\* each roster and of each student's assigned list as it was; the sampled
\* population, computed once before the first trial, stays the list of the
\* students holding at least one session; and each student's number of
\* constructor commit events equals the length of the student's assigned
\* list, up to the final one.
C29_SizesPreserved ==
    /\ [][ TrialStep =>
              /\ \A t \in DOMAIN sessions :
                    Len(sessions'[t].assigned_students) = Len(sessions[t].assigned_students)
              /\ \A i \in DOMAIN students :
                    Len(students'[i].assigned) = Len(students[i].assigned) ]_vars
    /\ []((swap_iterations > 0 /\ pc \in {"optimize", "done", "reported"})
             => student_ids = Assigned)
    /\ [](\A i \in DOMAIN students : Cardinality(CommitsOf(i)) = Len(students[i].assigned))

\* All trials are over, the last of them committed a swap, and one of the
\* sampled students holds two sessions.
C29_Witness ==
    /\ pc = "done"
    /\ trial = swap_iterations
    /\ trial > 1
    /\ last.kind = "swapped"
    /\ \E i \in DOMAIN students : Len(students[i].assigned) >= 2

\* The student has reached the target, in this state and in the next.
Served_at_target(i) == _student_hours(students[i], sessions) >= _target_hours(students[i])

Served_at_target_next(i) == _student_hours(students'[i], sessions') >= _target_hours(students'[i])

\* C30: served stays served: a student whose accumulated hours are at or
\* above the target is at or above the target after every step of the run,
\* whatever trials follow; and a committed swap leaves both its students at
\* or above the target, so a student below target takes part in one only if
\* it brings the student to the target.
C30_ServedStaysServed ==
    /\ [][ \A i \in DOMAIN students : Served_at_target(i) => Served_at_target_next(i) ]_vars
    /\ [][ (TrialStep /\ Moved) =>
              /\ Served_at_target_next(last'.a)
              /\ Served_at_target_next(last'.b) ]_vars

\* A swap was committed that lifted a student from below the target to it:
\* before the swap the student held fewer hours than the target.
C30_Witness ==
    /\ last.kind = "swapped"
    /\ _student_hours(students[last.a], sessions)
          - sessions[last.sb].hours + sessions[last.sa].hours
          < _target_hours(students[last.a])
    /\ _student_hours(students[last.a], sessions) >= _target_hours(students[last.a])

\* The session could still be given to the student: it has a seat left, its
\* project is not among the projects of the sessions the student holds, and
\* it conflicts with no busy slot and no held session of the student.
StillOpen(stu, t) ==
    /\ remaining(sessions[t]) > 0
    /\ \A i \in DOMAIN stu.assigned :
          /\ sessions[stu.assigned[i]].project_name # sessions[t].project_name
          /\ ~conflicts_with(SlotOf(stu.assigned[i]), SlotOf(t))
    /\ \A k \in DOMAIN stu.busy_slots : ~conflicts_with(stu.busy_slots[k], SlotOf(t))

\* C31: when the run is over, constructor and all optimizer trials, every
\* student whose accumulated hours are below the target has an empty
\* candidate set: no session has a seat left, a project the student does
\* not hold and no time conflict with the student.
C31_FinalMaximal ==
    pc \in {"done", "reported"} =>
        \A i \in DOMAIN students :
            BelowTarget(students[i], sessions) =>
               /\ _candidate_sessions(students[i], students, sessions) = <<>>
               /\ \A t \in DOMAIN sessions : ~StillOpen(students[i], t)

\* The run ended after a committed swap with a student below target, while
\* a session still has a seat: the student holds its project or is busy then.
C31_Witness ==
    /\ pc = "done"
    /\ last.kind = "swapped"
    /\ \E i \in DOMAIN students, t \in DOMAIN sessions :
          /\ BelowTarget(students[i], sessions)
          /\ students[i].assigned # <<>>
          /\ remaining(sessions[t]) > 0

\* The heterogeneity metric of a roster, from scratch: the larger of the
\* numbers of distinct classes and distinct majors on it, divided by its
\* length, in binary64; 0.0 for an empty roster.
RosterMetric(roster, studs) ==
    IF roster = <<>> THEN FlZero
    ELSE FlDivInt(MaxOf2(Cardinality({studs[roster[k]].clazz : k \in DOMAIN roster} \ {""}),
                         Cardinality({studs[roster[k]].major : k \in DOMAIN roster} \ {""})),
                  Len(roster))

\* C32: the improvement gate predicts the real outcome: for every committed
\* swap, the after-metric computed before the commit for each of the two
\* sessions (the roster without the student going out, with the student
\* coming in) equals the metric of that session's actual roster after the
\* commit, and the gate's after-sum is the sum of the two actual metrics.
C32_GatePredictsOutcome ==
    [][ (TrialStep /\ last'.kind = "swapped") =>
           LET a  == last'.a
               b  == last'.b
               sa == last'.sa
               sb == last'.sb
           IN /\ _session_diversity(sessions[sa], Some(students[a]), Some(students[b]), students)
                    = RosterMetric(sessions'[sa].assigned_students, students')
              /\ _session_diversity(sessions[sb], Some(students[b]), Some(students[a]), students)
                    = RosterMetric(sessions'[sb].assigned_students, students')
              /\ _session_diversity(sessions'[sa], None, None, students')
                    = RosterMetric(sessions'[sa].assigned_students, students')
              /\ _session_diversity(sessions'[sb], None, None, students')
                    = RosterMetric(sessions'[sb].assigned_students, students')
              /\ last'.after_div = FlAdd(RosterMetric(sessions'[sa].assigned_students, students'),
                                         RosterMetric(sessions'[sb].assigned_students, students')) ]_vars

\* A swap was committed between two sessions of two students each, whose
\* metrics now differ.
C32_Witness ==
    /\ last.kind = "swapped"
    /\ Len(sessions[last.sa].assigned_students) = 2
    /\ Len(sessions[last.sb].assigned_students) = 2
    /\ RosterMetric(sessions[last.sa].assigned_students, students)
          # RosterMetric(sessions[last.sb].assigned_students, students)
=============================================================================
